---- MODULE Spec2Model ----
(***************************************************************************)
(* Keyboard-shortcut engine of the input translator extension:             *)
(*   - shortcut normalisation (core/utils/keyboardUtils, described in      *)
(*     docs/KEYBOARD_SHORTCUTS.md),                                        *)
(*   - conflict validation at registration time (detectConflict),          *)
(*   - the dispatch table and the key-down / key-up handlers of            *)
(*     KeyboardShortcutHandler,                                            *)
(*   - the text insertion pipeline of InputHandler.                        *)
(* Shortcuts are modelled as the strings the program stores and compares.  *)
(***************************************************************************)
EXTENDS Integers, Sequences, FiniteSets, TLC

VARIABLES
    \* --- normalisation of one raw key combination (SpecNorm) ---
    rawTokens,      \* the '+'-separated parts of the raw shortcut string
    normalized,     \* normalizeShortcut(raw)
    renormalized,   \* normalizeShortcut(normalized)
    permuted,       \* normalizeShortcut(raw with its non-modifier keys reversed)
    \* --- configuration: presets and the registration check (SpecReg) ---
    presets,        \* settings.getPresets(): sequence of [id, keyboardShortcut]
    validation,     \* outcome of the last save attempt in the preset editor
    \* --- KeyboardShortcutHandler ---
    shortcutMap,        \* normalized shortcut -> preset id
    isProcessing,       \* the busy flag
    sequenceDetector,   \* [firstKey, modifiers]: Idle or Armed
    pc,                 \* where the running operation is suspended ("idle": none)
    op,                 \* the running operation: preset, context, text, result
    \* --- the keyboard and the host page ---
    keysDown,           \* keys whose last event delivered to the document was a key-down
    modifiers,          \* modifier keys currently held
    focused,            \* an editable field has the focus
    field,              \* [text, selStart, selEnd] of that field
    host,               \* how the page owning the field reacts to insertions
    pageSelection,      \* window.getSelection().toString()
    \* --- observation of the run ---
    lastKeyDown,        \* what the last key-down handler computed and did
    lastAbandoned,      \* armed key whose key-up was the last key event ("" if none)
    contentAtStart,     \* field text when the last operation began
    outcome,            \* how the last operation ended
    alerts,             \* alert() calls of the last operation
    inFlight,           \* operations started and not yet ended
    pageAtStart,        \* page selection when the last operation began
    calls,              \* engine and InputHandler calls of the last operation
    away,               \* [blurred, moved]: focus lost by the document, by the field
    \* --- WordSelectionHandler: the selection of a plain input ---
    word,               \* [value, start, end, dir], the last key and the selection before it
    \* --- verification of one insertion attempt ---
    probe,              \* [textBefore, text, current, verdict]
    \* --- LLM prompt with pending indicator ---
    llm,                \* the call, its timers and the writes in flight
    \* --- usePro: the freemium status ---
    pro,                \* [proStatus, stored, now, saving, activation]
    \* --- WordSelectionHandler: the key-down listener ---
    arrow,              \* [enabled, modifier, chain, event, prevented, called, modify]
    \* --- Popup.vue: the cross-promo banner ---
    popup,              \* [content, banner, showBanner, observed, hiddenAt, shownAt]
    \* --- PresetsTab: the info dialog ---
    infoDialog          \* [show, title]

normVars == <<rawTokens, normalized, renormalized, permuted>>
regVars == <<presets, validation>>
handlerVars == <<isProcessing, sequenceDetector, pc, op>>
pageVars == <<keysDown, modifiers, focused, field, host, pageSelection>>
obsVars == <<lastKeyDown, lastAbandoned, contentAtStart, outcome, alerts, inFlight,
             pageAtStart, calls, away>>
runVars == <<handlerVars, pageVars, obsVars>>
uiVars == <<arrow, popup, infoDialog>>
auxVars == <<word, probe, llm, pro, uiVars>>
vars == <<normVars, regVars, shortcutMap, runVars, auxVars>>

\* blurred: the document lost the focus and no key event has come since;
\* moved: the focus left the captured field while its operation was suspended
NoAway == [blurred |-> FALSE, moved |-> FALSE]

IdleWord ==
    [value |-> "", start |-> 0, end |-> 0, dir |-> "none", key |-> "none",
     from |-> [start |-> 0, end |-> 0, dir |-> "none"]]

IdleProbe == [textBefore |-> "", text |-> "", current |-> "", verdict |-> "unset"]

IdleLLM ==
    [phase |-> "idle", cancelled |-> FALSE, timer |-> "off", elapsed |-> 0,
     pendingShown |-> FALSE, write |-> "none", writeText |-> "",
     final |-> "none", finalText |-> "", result |-> "", failed |-> FALSE,
     original |-> "", prefix |-> "", suffix |-> "", raced |-> FALSE,
     snapshot |-> ""]

NoActivation ==
    [code |-> "", at |-> 0, before |-> "", storedBefore |-> "", after |-> "",
     storedAfter |-> "", saved |-> FALSE, result |-> "none"]

IdlePro ==
    [proStatus |-> "free", stored |-> "unset", now |-> 0, saving |-> "none",
     activation |-> NoActivation]

NoEvent ==
    [key |-> "none", altKey |-> FALSE, ctrlKey |-> FALSE, shiftKey |-> FALSE,
     metaKey |-> FALSE]

\* WordSelectionHandler as constructed: enabled, modifier 'Alt'; nothing focused
IdleArrow ==
    [enabled |-> TRUE, modifier |-> "Alt", chain |-> <<>>, event |-> NoEvent,
     prevented |-> FALSE, called |-> "none", modify |-> "none"]

\* Popup.vue before it is mounted: showBanner = ref(true), nothing observed yet
IdlePopup ==
    [content |-> 0, banner |-> 0, showBanner |-> TRUE, observed |-> 0,
     hiddenAt |-> 0, shownAt |-> 0]

\* PresetsTab.infoDialog as created
NoDialog == [show |-> FALSE, title |-> ""]

UiIdle ==
    /\ arrow = IdleArrow
    /\ popup = IdlePopup
    /\ infoDialog = NoDialog

(***************************************************************************)
(* Strings                                                                 *)
(***************************************************************************)
Digits == "0123456789"
UpperAlpha == "ABCDEFGHIJKLMNOPQRSTUVWXYZ"
LowerAlpha == "abcdefghijklmnopqrstuvwxyz"

Ch(s, i) == SubSeq(s, i, i)

\* 1-based index of the one-character string c in alpha, 0 when absent
IndexIn(c, alpha) ==
    IF \E i \in 1..Len(alpha) : Ch(alpha, i) = c
    THEN CHOOSE i \in 1..Len(alpha) : Ch(alpha, i) = c
    ELSE 0

\* UTF-16 code unit of a one-character string (the characters used here)
CharCode(c) ==
    IF IndexIn(c, Digits) > 0 THEN 47 + IndexIn(c, Digits)
    ELSE IF IndexIn(c, UpperAlpha) > 0 THEN 64 + IndexIn(c, UpperAlpha)
    ELSE IF IndexIn(c, LowerAlpha) > 0 THEN 96 + IndexIn(c, LowerAlpha)
    ELSE IF c = "+" THEN 43
    ELSE IF c = " " THEN 32
    ELSE IF c = "!" THEN 33
    ELSE 95

UpperChar(c) ==
    IF IndexIn(c, LowerAlpha) > 0 THEN Ch(UpperAlpha, IndexIn(c, LowerAlpha)) ELSE c

LowerChar(c) ==
    IF IndexIn(c, UpperAlpha) > 0 THEN Ch(LowerAlpha, IndexIn(c, UpperAlpha)) ELSE c

RECURSIVE toUpperCase(_)
toUpperCase(s) ==
    IF Len(s) = 0 THEN "" ELSE UpperChar(Ch(s, 1)) \o toUpperCase(SubSeq(s, 2, Len(s)))

RECURSIVE toLowerCase(_)
toLowerCase(s) ==
    IF Len(s) = 0 THEN "" ELSE LowerChar(Ch(s, 1)) \o toLowerCase(SubSeq(s, 2, Len(s)))

startsWith(s, p) == Len(p) <= Len(s) /\ SubSeq(s, 1, Len(p)) = p

includes(s, t) ==
    \E i \in 0..Len(s) : i + Len(t) <= Len(s) /\ SubSeq(s, i + 1, i + Len(t)) = t

\* String comparison of Array.prototype.sort(): by code units, shorter prefix first
RECURSIVE StrLess(_, _)
StrLess(a, b) ==
    IF Len(b) = 0 THEN FALSE
    ELSE IF Len(a) = 0 THEN TRUE
    ELSE IF CharCode(Ch(a, 1)) # CharCode(Ch(b, 1))
         THEN CharCode(Ch(a, 1)) < CharCode(Ch(b, 1))
    ELSE StrLess(SubSeq(a, 2, Len(a)), SubSeq(b, 2, Len(b)))

\* s.split('+')
RECURSIVE SplitFrom(_, _, _)
SplitFrom(s, i, cur) ==
    IF i > Len(s) THEN <<cur>>
    ELSE IF Ch(s, i) = "+" THEN <<cur>> \o SplitFrom(s, i + 1, "")
    ELSE SplitFrom(s, i + 1, cur \o Ch(s, i))

Split(s) == SplitFrom(s, 1, "")

\* parts.join('+')
RECURSIVE Join(_)
Join(parts) ==
    IF Len(parts) = 0 THEN ""
    ELSE IF Len(parts) = 1 THEN parts[1]
    ELSE parts[1] \o "+" \o Join(Tail(parts))

RECURSIVE SelectSeqOf(_, _)
SelectSeqOf(parts, keep) ==
    IF Len(parts) = 0 THEN <<>>
    ELSE (IF Head(parts) \in keep THEN <<Head(parts)>> ELSE <<>>)
         \o SelectSeqOf(Tail(parts), keep)

(***************************************************************************)
(* Shortcut Normalizer                                                     *)
(***************************************************************************)
\* canonical modifier order of the wire format
ModifierOrder == <<"Ctrl", "Alt", "Shift", "Meta">>
ModifierNames == {"Ctrl", "Alt", "Shift", "Meta"}

Rejected == ""
Unset == "<unset>"

Capitalize(s) ==
    IF Len(s) = 0 THEN ""
    ELSE UpperChar(Ch(s, 1)) \o toLowerCase(SubSeq(s, 2, Len(s)))

IsModifier(part) == Capitalize(part) \in ModifierNames

\* numeric-pad digits map to the base-row digit, single characters are upper-cased
NormalizeKey(part) ==
    IF Len(part) = 7 /\ toLowerCase(SubSeq(part, 1, 6)) = "numpad"
       /\ IndexIn(Ch(part, 7), Digits) > 0
    THEN Ch(part, 7)
    ELSE IF Len(part) = 1 THEN toUpperCase(part)
    ELSE part

\* insertion sort of a sequence of strings, ascending by StrLess
RECURSIVE InsertSorted(_, _)
InsertSorted(sorted, k) ==
    IF Len(sorted) = 0 THEN <<k>>
    ELSE IF StrLess(k, Head(sorted)) THEN <<k>> \o sorted
    ELSE <<Head(sorted)>> \o InsertSorted(Tail(sorted), k)

RECURSIVE SortKeys(_)
SortKeys(keys) ==
    IF Len(keys) = 0 THEN <<>>
    ELSE InsertSorted(SortKeys(SubSeq(keys, 1, Len(keys) - 1)), keys[Len(keys)])

RECURSIVE MapKeys(_)
MapKeys(parts) ==
    IF Len(parts) = 0 THEN <<>>
    ELSE (IF Head(parts) = "" \/ IsModifier(Head(parts)) THEN <<>>
          ELSE <<NormalizeKey(Head(parts))>>)
         \o MapKeys(Tail(parts))

ModifiersOf(parts) == {Capitalize(parts[i]) : i \in {j \in 1..Len(parts) : IsModifier(parts[j])}}

\* the keys of a raw combination, taken in the order given, without the sort
NormalizeUnsorted(raw) ==
    LET parts == Split(raw)
        mods  == SelectSeqOf(ModifierOrder, ModifiersOf(parts))
        keys  == MapKeys(parts)
    IN  IF Len(mods) = 0 \/ Len(keys) = 0 \/ Len(keys) > 2 THEN Rejected
        ELSE Join(mods \o keys)

\* the keys sorted as typed, before the numeric-pad and upper-case mapping
RECURSIVE RawKeys(_)
RawKeys(parts) ==
    IF Len(parts) = 0 THEN <<>>
    ELSE (IF Head(parts) = "" \/ IsModifier(Head(parts)) THEN <<>> ELSE <<Head(parts)>>)
         \o RawKeys(Tail(parts))

NormalizeSortFirst(raw) ==
    LET parts == Split(raw)
        mods  == SelectSeqOf(ModifierOrder, ModifiersOf(parts))
        keys  == MapKeys(SortKeys(RawKeys(parts)))
    IN  IF Len(mods) = 0 \/ Len(keys) = 0 \/ Len(keys) > 2 THEN Rejected
        ELSE Join(mods \o keys)

\* no shape check: whatever modifiers and keys are present are emitted
NormalizeNoRules(raw) ==
    LET parts == Split(raw)
        mods  == SelectSeqOf(ModifierOrder, ModifiersOf(parts))
        keys  == SortKeys(MapKeys(parts))
    IN  Join(mods \o keys)

normalizeShortcut(raw) ==
    LET parts == Split(raw)
        mods  == SelectSeqOf(ModifierOrder, ModifiersOf(parts))
        keys  == SortKeys(MapKeys(parts))
    IN  IF Len(mods) = 0 \/ Len(keys) = 0 \/ Len(keys) > 2 THEN Rejected
        ELSE Join(mods \o keys)

\* modifiers and keys of a shortcut string in wire format
ShortcutMods(s) == {p \in ModifierNames : \E i \in 1..Len(Split(s)) : Split(s)[i] = p}
ShortcutKeys(s) == RawKeys(Split(s))

(***************************************************************************)
(* Presets, conflict validation and the dispatch table                     *)
(***************************************************************************)
MaxPresets == 3
PresetIds == 1..(MaxPresets + 1)

generateDefaultShortcut(index) ==
    IF index = 1 THEN "Alt+T"
    ELSE IF index >= 2 /\ index <= 9 THEN "Ctrl+Alt+" \o Ch(Digits, index + 1)
    ELSE ""

\* createOnboardingPresetsSettings(): the three presets of a fresh install
OnboardingPresets ==
    << [id |-> 1, keyboardShortcut |-> generateDefaultShortcut(1)],
       [id |-> 2, keyboardShortcut |-> generateDefaultShortcut(2)],
       [id |-> 3, keyboardShortcut |-> generateDefaultShortcut(3)] >>

NoOwner == 0
NoConflict == [kind |-> "ok", owner |-> NoOwner]

\* the loop of detectConflict without its exact-duplicate test
RECURSIVE DetectPrefixOnly(_, _)
DetectPrefixOnly(newShortcut, existingPresets) ==
    IF Len(existingPresets) = 0 THEN NoConflict
    ELSE LET preset == Head(existingPresets)
             existing == preset.keyboardShortcut
         IN  IF startsWith(existing, newShortcut \o "+")
             THEN [kind |-> "conflict", owner |-> preset.id]
             ELSE IF startsWith(newShortcut, existing \o "+")
             THEN [kind |-> "conflict", owner |-> preset.id]
             ELSE DetectPrefixOnly(newShortcut, Tail(existingPresets))

RECURSIVE detectConflict(_, _)
detectConflict(newShortcut, existingPresets) ==
    IF Len(existingPresets) = 0 THEN NoConflict
    ELSE LET preset == Head(existingPresets)
             existing == preset.keyboardShortcut
         IN  IF startsWith(existing, newShortcut \o "+")
             THEN [kind |-> "conflict", owner |-> preset.id]
             ELSE IF startsWith(newShortcut, existing \o "+")
             THEN [kind |-> "conflict", owner |-> preset.id]
             ELSE IF newShortcut = existing
             THEN [kind |-> "duplicate", owner |-> preset.id]
             ELSE detectConflict(newShortcut, Tail(existingPresets))

\* Validation flow of the preset editor: normalize, check rules, check conflicts
validateShortcut(raw, existingPresets) ==
    LET candidate == normalizeShortcut(raw)
    IN  IF candidate = Rejected THEN [kind |-> "invalid", owner |-> NoOwner]
        ELSE detectConflict(candidate, existingPresets)

PresetIndices(ps) == 1..Len(ps)
IdsOf(ps) == {ps[i].id : i \in PresetIndices(ps)}
OtherPresets(ps, id) == SelectSeq(ps, LAMBDA p : p.id # id)
PresetById(ps, id) == ps[CHOOSE i \in PresetIndices(ps) : ps[i].id = id]

\* shortcuts a user enters in the preset editor
EnteredShortcuts == {"Alt+T", "Alt+T+1", "Alt+1+T", "Alt+1", "T"}

\* every string that can be stored in a preset's keyboardShortcut
SequencePresetShortcut == "Ctrl+Alt+1+T"

StoredShortcuts ==
    {generateDefaultShortcut(i) : i \in 1..3}
        \cup {normalizeShortcut(raw) : raw \in EnteredShortcuts}
        \cup {SequencePresetShortcut}

\* the shortcuts addPreset gives to new presets
MaxSavedPresets == 6
DefaultShortcuts == {generateDefaultShortcut(i) : i \in 1..(MaxSavedPresets + 1)}

\* normalizeShortcut on the strings that occur, computed once
NormalizedOf ==
    [s \in EnteredShortcuts \cup StoredShortcuts \cup DefaultShortcuts |-> normalizeShortcut(s)]

\* rebuildShortcutMap(): clear, then set(normalized, preset) for each preset in order
BuildShortcutMap(ps) ==
    LET keys == {NormalizedOf[ps[i].keyboardShortcut] : i \in PresetIndices(ps)}
        last(k) == CHOOSE i \in PresetIndices(ps) :
                      /\ NormalizedOf[ps[i].keyboardShortcut] = k
                      /\ \A j \in PresetIndices(ps) :
                            NormalizedOf[ps[j].keyboardShortcut] = k => j <= i
    IN  [k \in keys |-> ps[last(k)].id]

NoValidation ==
    [raw |-> "", candidate |-> "", editing |-> NoOwner, kind |-> "none",
     owner |-> NoOwner, ownerShortcut |-> ""]

Attempt(raw, id, result, existingPresets) ==
    [raw |-> raw, candidate |-> NormalizedOf[raw], editing |-> id,
     kind |-> result.kind, owner |-> result.owner,
     ownerShortcut |-> IF result.owner = NoOwner THEN ""
                       ELSE PresetById(existingPresets, result.owner).keyboardShortcut]

RegInit ==
    /\ presets = OnboardingPresets
    /\ validation = NoValidation
    /\ shortcutMap = BuildShortcutMap(OnboardingPresets)
    /\ rawTokens = <<>>
    /\ normalized = Unset
    /\ renormalized = Unset
    /\ permuted = Unset
    /\ isProcessing = FALSE
    /\ sequenceDetector = [firstKey |-> "", modifiers |-> {}]
    /\ pc = "idle"
    /\ op = [preset |-> NoOwner, context |-> "none", text |-> "", result |-> "", textBefore |-> ""]
    /\ keysDown = {}
    /\ modifiers = {}
    /\ focused = FALSE
    /\ field = [text |-> "", selStart |-> 0, selEnd |-> 0]
    /\ host = "plain"
    /\ pageSelection = ""
    /\ lastKeyDown = [simpleShortcut |-> "", sequenceShortcut |-> "", armedKeyDown |-> TRUE,
                      afterAbandon |-> "", preset |-> NoOwner, prevented |-> FALSE,
                      skipped |-> FALSE, targetless |-> FALSE]
    /\ lastAbandoned = ""
    /\ contentAtStart = ""
    /\ outcome = "none"
    /\ alerts = 0
    /\ inFlight = 0
    /\ pageAtStart = ""
    /\ away = NoAway
    /\ calls = [transform |-> 0, commit |-> 0, attempts |-> <<>>]
    /\ word = IdleWord
    /\ probe = IdleProbe
    /\ llm = IdleLLM
    /\ pro = IdlePro
    /\ UiIdle

\* PresetEditor: save a shortcut entered for the existing preset `id`
SaveShortcut(id, raw) ==
    /\ id \in IdsOf(presets)
    /\ LET others == OtherPresets(presets, id)
           result == validateShortcut(raw, others)
           saved  == [i \in PresetIndices(presets) |->
                        IF presets[i].id = id
                        THEN [presets[i] EXCEPT !.keyboardShortcut = NormalizedOf[raw]]
                        ELSE presets[i]]
       IN  /\ validation' = Attempt(raw, id, result, others)
           /\ presets' = IF result.kind = "ok" THEN saved ELSE presets
           /\ shortcutMap' = BuildShortcutMap(presets')

\* create a preset and save the shortcut entered for it
RegisterPreset(raw) ==
    /\ Len(presets) < MaxPresets
    /\ LET id == CHOOSE n \in PresetIds : /\ n \notin IdsOf(presets)
                                          /\ \A m \in PresetIds \ IdsOf(presets) : n <= m
           result == validateShortcut(raw, presets)
       IN  /\ validation' = Attempt(raw, id, result, presets)
           /\ presets' = IF result.kind = "ok"
                         THEN Append(presets, [id |-> id,
                                               keyboardShortcut |-> NormalizedOf[raw]])
                         ELSE presets
           /\ shortcutMap' = BuildShortcutMap(presets')

\* PresetsTab.showInfoDialog
showInfoDialog(title) == [show |-> TRUE, title |-> title]

\* deletePreset without the guard on the last preset
DeleteUnguarded(id) ==
    /\ id \in IdsOf(presets)
    /\ presets' = OtherPresets(presets, id)
    /\ shortcutMap' = BuildShortcutMap(presets')
    /\ UNCHANGED <<validation, infoDialog>>

\* PresetsTab.deletePreset: the last preset cannot be deleted
deletePreset(id) ==
    /\ id \in IdsOf(presets)
    /\ IF Len(presets) <= 1
       THEN /\ infoDialog' = showInfoDialog("Cannot Delete")
            /\ UNCHANGED presets
       ELSE /\ presets' = OtherPresets(presets, id)
            /\ UNCHANGED infoDialog
    /\ shortcutMap' = BuildShortcutMap(presets')
    /\ UNCHANGED validation

\* PresetsTab.closeInfoDialog
closeInfoDialog ==
    /\ infoDialog.show
    /\ infoDialog' = [infoDialog EXCEPT !.show = FALSE]
    /\ UNCHANGED <<presets, validation, shortcutMap>>

regFrame == <<normVars, runVars, word, probe, llm, pro, arrow, popup>>

RegNext ==
    \/ \E id \in PresetIds, raw \in EnteredShortcuts : SaveShortcut(id, raw) /\ UNCHANGED <<regFrame, infoDialog>>
    \/ \E raw \in EnteredShortcuts : RegisterPreset(raw) /\ UNCHANGED <<regFrame, infoDialog>>
    \/ \E id \in PresetIds : deletePreset(id) /\ UNCHANGED regFrame
    \/ closeInfoDialog /\ UNCHANGED regFrame

(***************************************************************************)
(* Key events, the sequence detector and the dispatch                      *)
(***************************************************************************)
Keys == {"t", "1"}
ModifierStates == {{}, {"Alt"}, {"Ctrl", "Alt"}}
NoKey == ""
Idle == [firstKey |-> NoKey, modifiers |-> {}]

ModifierPrefix(mods) == SelectSeqOf(ModifierOrder, mods)

formatShortcutFromEvent(key, mods) == Join(ModifierPrefix(mods) \o <<NormalizeKey(key)>>)

SimpleShortcutOf == [m \in ModifierStates, k \in Keys |-> formatShortcutFromEvent(k, m)]

SequenceShortcutOf ==
    [m \in ModifierStates, a \in Keys, b \in Keys |->
        normalizeShortcut(Join(ModifierPrefix(m) \o <<a, b>>))]

\* KeyboardSequenceDetector.processKeyDown: the new detector state and the
\* 2-key candidate ("" when none)
processKeyDown(det, key, mods) ==
    IF mods = {} THEN [detector |-> Idle, shortcut |-> ""]
    ELSE IF det.firstKey = NoKey \/ det.modifiers # mods
    THEN [detector |-> [firstKey |-> key, modifiers |-> mods], shortcut |-> ""]
    ELSE IF det.firstKey = key THEN [detector |-> det, shortcut |-> ""]
    ELSE [detector |-> Idle, shortcut |-> SequenceShortcutOf[mods, det.firstKey, key]]

\* KeyboardSequenceDetector.processKeyUp
processKeyUp(det, key) == IF det.firstKey = key THEN Idle ELSE det

\* a key-up handler that does not forward the event to the detector
HandleKeyUpIgnored(key) == sequenceDetector

handleKeyUp(key) == processKeyUp(sequenceDetector, key)

\* the presets of the running handler: the onboarding presets and a 2-key one
HandlerPresets ==
    Append(OnboardingPresets, [id |-> 4, keyboardShortcut |-> SequencePresetShortcut])

PresetType(id) == IF id \in {2, 4} THEN "transformation" ELSE "translation"

\* the busy check that never rejects
StartAlways == TRUE

\* "Prevent concurrent translations"
CanStart == ~isProcessing

(***************************************************************************)
(* The focused field and the insertion pipeline                            *)
(***************************************************************************)
Hosts == {"plain", "maxlength", "pasteOnly", "inputOnly", "inert"}

RECURSIVE IsBlank(_)
IsBlank(s) == Len(s) = 0 \/ (Ch(s, 1) = " " /\ IsBlank(SubSeq(s, 2, Len(s))))

SelectedText(f) == SubSeq(f.text, f.selStart + 1, f.selEnd)
hasSelection(f) == f.selStart < f.selEnd
Min(a, b) == IF a < b THEN a ELSE b

\* the selected range replaced by text, the cursor after it
Inserted(f, text) ==
    [text |-> SubSeq(f.text, 1, f.selStart) \o text \o SubSeq(f.text, f.selEnd + 1, Len(f.text)),
     selStart |-> f.selStart + Len(text),
     selEnd |-> f.selStart + Len(text)]

\* an <input maxlength=n>: the inserted text is cut so that the value fits
Truncated(f, text, maxLen) ==
    LET kept == Len(f.text) - (f.selEnd - f.selStart)
        room == IF maxLen > kept THEN maxLen - kept ELSE 0
    IN  Inserted(f, SubSeq(text, 1, Min(Len(text), room)))

\* what the page does with insertion strategy n (1 execCommand, 2 paste, 3 input event)
HostApply(h, n, f, text, maxLen) ==
    IF h = "plain" /\ n = 1 THEN Inserted(f, text)
    ELSE IF h = "maxlength" /\ n = 1 THEN Truncated(f, text, maxLen)
    ELSE IF h = "pasteOnly" /\ n = 2 THEN Inserted(f, text)
    ELSE IF h = "inputOnly" /\ n = 3 THEN Inserted(f, text)
    ELSE f

\* the verification by .includes(text) alone
VerifyIncludesOnly(current, text, textBefore) == includes(current, text)

verifyInsertion(current, text, textBefore) ==
    \/ includes(current, text)
    \/ Len(current) # Len(textBefore)

selectAll(f) == [f EXCEPT !.selStart = 0, !.selEnd = Len(f.text)]

\* TransformationEngine.transform: a local pure function text -> text
transform(text) == toUpperCase(text)

\* results the translation engine can resolve with
TranslationResults == {"xyz!"}

NoOp == [preset |-> NoOwner, context |-> "none", text |-> "", result |-> "", textBefore |-> ""]

NoCalls == [transform |-> 0, commit |-> 0, attempts |-> <<>>]

\* handleShortcut without the trim() tests
ContextIgnoringBlank ==
    IF focused /\ hasSelection(field) THEN "selection"
    ELSE IF focused /\ Len(field.text) > 0 THEN "content"
    ELSE IF Len(pageSelection) > 0 THEN "page"
    ELSE "none"

\* handleShortcut: which text the operation works on
ContextOf ==
    IF focused /\ hasSelection(field) /\ ~IsBlank(SelectedText(field)) THEN "selection"
    ELSE IF focused /\ ~IsBlank(field.text) THEN "content"
    ELSE IF ~IsBlank(pageSelection) THEN "page"
    ELSE "none"

TextOf(context) ==
    IF context = "selection" THEN SelectedText(field)
    ELSE IF context = "content" THEN field.text
    ELSE IF context = "page" THEN pageSelection
    ELSE ""

\* processText once the result is known: the page selection is replaced at once,
\* a field is focused and the insertion waits for the first delay
BeginCommit(context, result) ==
    IF context = "page"
    THEN [pc |-> "idle", pageSelection |-> result, outcome |-> "success"]
    ELSE [pc |-> "focusDelay", pageSelection |-> pageSelection, outcome |-> "running"]

\* handleShortcut(preset) up to its first suspension
StartOperation(presetId) ==
    LET context == ContextOf
        text == TextOf(context)
    IN  IF context = "none"
        THEN [pc |-> "idle", op |-> NoOp, pageSelection |-> pageSelection,
              outcome |-> "noTarget", calls |-> NoCalls]
        ELSE IF PresetType(presetId) = "transformation"
        THEN LET c == BeginCommit(context, transform(text))
             IN  [pc |-> c.pc,
                  op |-> IF c.pc = "idle" THEN NoOp
                         ELSE [preset |-> presetId, context |-> context, text |-> text,
                               result |-> transform(text), textBefore |-> ""],
                  pageSelection |-> c.pageSelection,
                  outcome |-> c.outcome,
                  calls |-> [NoCalls EXCEPT !.transform = 1, !.commit = 1]]
        ELSE [pc |-> "translating",
              op |-> [preset |-> presetId, context |-> context, text |-> text,
                      result |-> "", textBefore |-> ""],
              pageSelection |-> pageSelection,
              outcome |-> "running",
              calls |-> [NoCalls EXCEPT !.transform = 1]]

NoKeyDown ==
    [simpleShortcut |-> "", sequenceShortcut |-> "", armedKeyDown |-> TRUE,
     afterAbandon |-> "", preset |-> NoOwner, prevented |-> FALSE, skipped |-> FALSE,
     targetless |-> FALSE]

\* the presets found for the two candidates of a key-down: the simple one first
matchPreset(simpleShortcut, sequenceShortcut) ==
    IF simpleShortcut \in DOMAIN shortcutMap THEN shortcutMap[simpleShortcut]
    ELSE IF sequenceShortcut # "" /\ sequenceShortcut \in DOMAIN shortcutMap
    THEN shortcutMap[sequenceShortcut]
    ELSE NoOwner

\* a handler that goes on without a matching preset
MatchedAlways(preset) == TRUE

\* "No matching preset found": if (!preset) return
Matched(preset) == preset # NoOwner

\* neither a focused field with non-blank text nor a non-blank page selection
Targetless == ~(focused /\ ~IsBlank(field.text)) /\ IsBlank(pageSelection)

\* handleKeyDown(event) for a non-modifier key, up to its first suspension
handleKeyDown(key) ==
    LET det == processKeyDown(sequenceDetector, key, modifiers)
        sequenceShortcut == det.shortcut
        simpleShortcut == SimpleShortcutOf[modifiers, key]
        preset == matchPreset(simpleShortcut, sequenceShortcut)
        seen == [simpleShortcut |-> simpleShortcut,
                 sequenceShortcut |-> sequenceShortcut,
                 armedKeyDown |-> sequenceShortcut = "" \/ sequenceDetector.firstKey \in keysDown,
                 afterAbandon |-> lastAbandoned,
                 preset |-> preset, prevented |-> Matched(preset), skipped |-> FALSE,
                 targetless |-> Targetless]
        started == StartOperation(preset)
    IN  /\ keysDown' = keysDown \cup {key}
        /\ lastAbandoned' = ""
        /\ away' = [blurred |-> FALSE,
                    moved |-> IF Matched(preset) /\ CanStart THEN FALSE ELSE away.moved]
        /\ IF ~Matched(preset)
           THEN /\ sequenceDetector' = det.detector
                /\ lastKeyDown' = seen
                /\ UNCHANGED <<isProcessing, pc, op, pageSelection, contentAtStart,
                               outcome, alerts, inFlight, pageAtStart, calls>>
           ELSE IF ~CanStart
           THEN /\ sequenceDetector' = det.detector
                /\ lastKeyDown' = [seen EXCEPT !.skipped = TRUE]
                /\ UNCHANGED <<isProcessing, pc, op, pageSelection, contentAtStart,
                               outcome, alerts, inFlight, pageAtStart, calls>>
           ELSE /\ lastKeyDown' = seen
                /\ pc' = started.pc
                /\ op' = started.op
                /\ pageSelection' = started.pageSelection
                /\ outcome' = started.outcome
                /\ contentAtStart' = field.text
                /\ pageAtStart' = pageSelection
                /\ calls' = started.calls
                /\ alerts' = 0
                /\ IF started.pc = "idle"
                   THEN /\ isProcessing' = FALSE
                        /\ sequenceDetector' = Idle
                        /\ inFlight' = (inFlight + 1) - 1
                   ELSE /\ isProcessing' = TRUE
                        /\ sequenceDetector' = det.detector
                        /\ inFlight' = inFlight + 1
        /\ UNCHANGED <<modifiers, focused, field, host>>

KeyUp(key) ==
    /\ key \in keysDown
    /\ keysDown' = keysDown \ {key}
    /\ lastAbandoned' = IF sequenceDetector.firstKey = key THEN key ELSE ""
    /\ sequenceDetector' = handleKeyUp(key)
    /\ away' = [away EXCEPT !.blurred = FALSE]
    /\ UNCHANGED <<isProcessing, pc, op, modifiers, focused, field, host, pageSelection,
                   lastKeyDown, contentAtStart, outcome, alerts, inFlight, pageAtStart,
                   calls>>

\* the user presses or releases modifier keys
ModifierChange(mods) ==
    /\ mods # modifiers
    /\ modifiers' = mods
    /\ lastAbandoned' = ""
    /\ away' = [away EXCEPT !.blurred = FALSE]
    /\ UNCHANGED <<handlerVars, keysDown, focused, field, host, pageSelection,
                   lastKeyDown, contentAtStart, outcome, alerts, inFlight, pageAtStart,
                   calls>>

\* the finally block of handleKeyDown, reached when the operation ends
\* a catch block that reports nothing
FailedSilently == alerts

\* the catch block of processText: console.error and one alert()
reportFailure == alerts + 1

\* an end of operation without the finally block
FinishKeepsBusy(out, alertsAfter) ==
    /\ UNCHANGED <<isProcessing, sequenceDetector>>
    /\ pc' = "idle"
    /\ op' = NoOp
    /\ outcome' = out
    /\ alerts' = alertsAfter
    /\ inFlight' = inFlight - 1

Finish(out, alertsAfter) ==
    /\ isProcessing' = FALSE
    /\ sequenceDetector' = Idle
    /\ pc' = "idle"
    /\ op' = NoOp
    /\ outcome' = out
    /\ alerts' = alertsAfter
    /\ inFlight' = inFlight - 1

\* engine.translateText resolves
TranslateResolve(result) ==
    /\ pc = "translating"
    /\ LET c == BeginCommit(op.context, result)
       IN  IF c.pc = "idle"
           THEN /\ Finish(c.outcome, alerts)
                /\ pageSelection' = c.pageSelection
           ELSE /\ pc' = c.pc
                /\ op' = [op EXCEPT !.result = result]
                /\ UNCHANGED <<isProcessing, sequenceDetector, pageSelection, outcome,
                               alerts, inFlight>>
    /\ calls' = [calls EXCEPT !.commit = @ + 1]
    /\ focused' = (focused \/ op.context # "page")
    /\ UNCHANGED <<keysDown, modifiers, field, host, lastKeyDown, lastAbandoned,
                   contentAtStart, pageAtStart, away>>

\* engine.translateText rejects: caught in processText, one alert
TranslateReject ==
    /\ pc = "translating"
    /\ Finish("transformFailed", reportFailure)
    /\ UNCHANGED <<pageVars, lastKeyDown, lastAbandoned, contentAtStart, pageAtStart, calls,
                   away>>

\* element.focus(); await delay: setTextValue then selects all, replaceSelectedText inserts
AfterFocusDelay ==
    /\ pc = "focusDelay"
    /\ IF op.context = "content"
       THEN /\ field' = selectAll(field)
            /\ pc' = "selectDelay"
            /\ op' = op
       ELSE /\ field' = field
            /\ pc' = "try1"
            /\ op' = [op EXCEPT !.textBefore = field.text]
    /\ UNCHANGED <<isProcessing, sequenceDetector, keysDown, modifiers, focused, host,
                   pageSelection, obsVars>>

AfterSelectDelay ==
    /\ pc = "selectDelay"
    /\ pc' = "try1"
    /\ op' = [op EXCEPT !.textBefore = field.text]
    /\ UNCHANGED <<isProcessing, sequenceDetector, pageVars, obsVars>>

StrategyAt == [p \in {"try1", "try2", "try3"} |-> IF p = "try1" THEN 1 ELSE IF p = "try2" THEN 2 ELSE 3]
\* a fallback chain that leaves out the clipboard event
SkipSecond == [n \in {1, 2} |-> "try3"]

NextTry == [n \in {1, 2} |-> IF n = 1 THEN "try2" ELSE "try3"]

\* insertTextWithFallbacks: one strategy and its verification
TryInsert ==
    /\ pc \in {"try1", "try2", "try3"}
    /\ LET n == StrategyAt[pc]
           after == HostApply(host, n, field, op.result, Len(contentAtStart))
           verified == verifyInsertion(after.text, op.result, op.textBefore)
       IN  /\ field' = after
           /\ calls' = [calls EXCEPT !.attempts = Append(@, [n |-> n, ok |-> verified])]
           /\ IF verified
              THEN Finish("success", alerts)
              ELSE IF n < 3
              THEN /\ pc' = NextTry[n]
                   /\ UNCHANGED <<isProcessing, sequenceDetector, op, outcome, alerts, inFlight>>
              ELSE Finish("mutationFailed", reportFailure)
    /\ UNCHANGED <<keysDown, modifiers, focused, host, pageSelection, lastKeyDown,
                   lastAbandoned, contentAtStart, pageAtStart, away>>

\* the document loses the focus (another window or tab): keys released from
\* now on deliver no key-up; initialize() registers no blur listener, so the
\* handler does nothing (followed here from the states with an armed key)
Blur ==
    /\ ~away.blurred
    /\ sequenceDetector # Idle
    /\ away' = [away EXCEPT !.blurred = TRUE]
    /\ UNCHANGED <<handlerVars, pageVars, lastKeyDown, lastAbandoned, contentAtStart,
                   outcome, alerts, inFlight, pageAtStart, calls>>

\* the user moves the focus out of the captured field while translateText is
\* pending
FocusMoves ==
    /\ pc = "translating"
    /\ op.context \in {"selection", "content"}
    /\ focused
    /\ focused' = FALSE
    /\ away' = [away EXCEPT !.moved = TRUE]
    /\ UNCHANGED <<handlerVars, keysDown, modifiers, field, host, pageSelection,
                   lastKeyDown, lastAbandoned, contentAtStart, outcome, alerts, inFlight,
                   pageAtStart, calls>>

\* what can be on the page when the handler is initialised
Scenes ==
    {[focused |-> TRUE, field |-> [text |-> "abc", selStart |-> sel[1], selEnd |-> sel[2]],
      host |-> h, pageSelection |-> ""] : sel \in {<<0, 0>>, <<0, 2>>}, h \in Hosts}
    \cup
    {[focused |-> foc, field |-> [text |-> " ", selStart |-> 0, selEnd |-> 0],
      host |-> "plain", pageSelection |-> ps] : foc \in BOOLEAN, ps \in {"", "hi"}}

Init ==
    /\ rawTokens = <<>>
    /\ normalized = Unset
    /\ renormalized = Unset
    /\ permuted = Unset
    /\ presets = HandlerPresets
    /\ validation = NoValidation
    /\ shortcutMap = BuildShortcutMap(HandlerPresets)
    /\ isProcessing = FALSE
    /\ sequenceDetector = Idle
    /\ pc = "idle"
    /\ op = NoOp
    /\ keysDown = {}
    /\ modifiers = {}
    /\ \E scene \in Scenes :
          /\ focused = scene.focused
          /\ field = scene.field
          /\ host = scene.host
          /\ pageSelection = scene.pageSelection
    /\ lastKeyDown = NoKeyDown
    /\ lastAbandoned = ""
    /\ contentAtStart = ""
    /\ outcome = "none"
    /\ alerts = 0
    /\ inFlight = 0
    /\ pageAtStart = ""
    /\ away = NoAway
    /\ calls = NoCalls
    /\ word = IdleWord
    /\ probe = IdleProbe
    /\ llm = IdleLLM
    /\ pro = IdlePro
    /\ UiIdle

KeyDown(key) == handleKeyDown(key)

Next ==
    \/ \E key \in Keys : KeyDown(key) /\ UNCHANGED <<normVars, regVars, shortcutMap, auxVars>>
    \/ \E key \in Keys : KeyUp(key) /\ UNCHANGED <<normVars, regVars, shortcutMap, auxVars>>
    \/ \E mods \in ModifierStates : ModifierChange(mods) /\ UNCHANGED <<normVars, regVars, shortcutMap, auxVars>>
    \/ \E result \in TranslationResults : TranslateResolve(result) /\ UNCHANGED <<normVars, regVars, shortcutMap, auxVars>>
    \/ TranslateReject /\ UNCHANGED <<normVars, regVars, shortcutMap, auxVars>>
    \/ AfterFocusDelay /\ UNCHANGED <<normVars, regVars, shortcutMap, auxVars>>
    \/ AfterSelectDelay /\ UNCHANGED <<normVars, regVars, shortcutMap, auxVars>>
    \/ TryInsert /\ UNCHANGED <<normVars, regVars, shortcutMap, auxVars>>
    \/ Blur /\ UNCHANGED <<normVars, regVars, shortcutMap, auxVars>>
    \/ FocusMoves /\ UNCHANGED <<normVars, regVars, shortcutMap, auxVars>>

Spec == Init /\ [][Next]_vars

RunIdle ==
    /\ isProcessing = FALSE
    /\ sequenceDetector = Idle
    /\ pc = "idle"
    /\ op = NoOp
    /\ keysDown = {}
    /\ modifiers = {}
    /\ focused = FALSE
    /\ field = [text |-> "", selStart |-> 0, selEnd |-> 0]
    /\ host = "plain"
    /\ pageSelection = ""
    /\ lastKeyDown = NoKeyDown
    /\ lastAbandoned = ""
    /\ contentAtStart = ""
    /\ outcome = "none"
    /\ alerts = 0
    /\ inFlight = 0
    /\ pageAtStart = ""
    /\ away = NoAway
    /\ calls = NoCalls

(***************************************************************************)
(* SpecNorm: normalizeShortcut applied to bounded raw combinations          *)
(***************************************************************************)
MaxTokens == 4
RawParts == {"ctrl", "Alt", "t", "1", "Numpad1", "A"}

RECURSIVE TokenSeqs(_)
TokenSeqs(n) ==
    IF n = 0 THEN {<<>>}
    ELSE TokenSeqs(n - 1) \cup
         {Append(s, p) : s \in {q \in TokenSeqs(n - 1) : Len(q) = n - 1}, p \in RawParts}

RECURSIVE Reverse(_)
Reverse(s) == IF Len(s) = 0 THEN <<>> ELSE Append(Reverse(Tail(s)), Head(s))

\* the same combination with its non-modifier keys given in the opposite order
SwapKeys(parts) ==
    SelectSeqOf(parts, {p \in RawParts : IsModifier(p)}) \o Reverse(RawKeys(parts))

NormInit ==
    /\ rawTokens \in TokenSeqs(MaxTokens)
    /\ normalized = Unset
    /\ renormalized = Unset
    /\ permuted = Unset
    /\ presets = <<>>
    /\ validation = NoValidation
    /\ shortcutMap = BuildShortcutMap(<<>>)
    /\ RunIdle
    /\ word = IdleWord
    /\ probe = IdleProbe
    /\ llm = IdleLLM
    /\ pro = IdlePro
    /\ UiIdle

Normalize ==
    /\ normalized = Unset
    /\ normalized' = normalizeShortcut(Join(rawTokens))
    /\ UNCHANGED <<rawTokens, renormalized, permuted, regVars, shortcutMap, runVars, auxVars>>

Renormalize ==
    /\ normalized # Unset
    /\ renormalized = Unset
    /\ renormalized' = normalizeShortcut(normalized)
    /\ UNCHANGED <<rawTokens, normalized, permuted, regVars, shortcutMap, runVars, auxVars>>

NormalizePermuted ==
    /\ permuted = Unset
    /\ permuted' = normalizeShortcut(Join(SwapKeys(rawTokens)))
    /\ UNCHANGED <<rawTokens, normalized, renormalized, regVars, shortcutMap, runVars, auxVars>>

NormNext == Normalize \/ Renormalize \/ NormalizePermuted

SpecNorm == NormInit /\ [][NormNext]_vars

(***************************************************************************)
(* SpecReg: presets edited through the validated registration flow         *)
(***************************************************************************)
SpecReg == RegInit /\ [][RegNext]_vars

(***************************************************************************)
(* WordSelectionHandler on an input or textarea (SpecWord)                 *)
(***************************************************************************)
MaxTextLen == 4
TextChars == {"a", " ", "."}

RECURSIVE TextsOfLen(_)
TextsOfLen(n) ==
    IF n = 0 THEN {""} ELSE {t \o c : t \in TextsOfLen(n - 1), c \in TextChars}

\* the texts of the documented examples
ExampleTexts == {"word", "word next"}

FieldTexts == UNION {TextsOfLen(n) : n \in 0..MaxTextLen} \cup ExampleTexts

\* text[pos] of a 0-based position
CharAt(text, pos) == Ch(text, pos + 1)

\* /[\w]/ on the characters that occur (letters, digits, underscore)
isWordChar(char) ==
    \/ IndexIn(char, LowerAlpha) > 0
    \/ IndexIn(char, UpperAlpha) > 0
    \/ IndexIn(char, Digits) > 0
    \/ char = "_"

\* /\s/ on the characters that occur
isWhitespace(char) == char = " "

\* a word-start search that does not walk back
WordStartStays(text, pos) == pos

\* while (p > 0 && isWordChar(text[p - 1])) p--
RECURSIVE findCurrentWordStart(_, _)
findCurrentWordStart(text, pos) ==
    IF pos > 0 /\ isWordChar(CharAt(text, pos - 1))
    THEN findCurrentWordStart(text, pos - 1)
    ELSE pos

\* while (p < text.length && isWordChar(text[p])) p++
RECURSIVE findCurrentWordEnd(_, _)
findCurrentWordEnd(text, pos) ==
    IF pos < Len(text) /\ isWordChar(CharAt(text, pos))
    THEN findCurrentWordEnd(text, pos + 1)
    ELSE pos

\* while (pos < text.length && isWhitespace(text[pos])) pos++
RECURSIVE SkipWhitespaceForward(_, _)
SkipWhitespaceForward(text, pos) ==
    IF pos < Len(text) /\ isWhitespace(CharAt(text, pos))
    THEN SkipWhitespaceForward(text, pos + 1)
    ELSE pos

\* while (pos > 0 && isWhitespace(text[pos])) pos--
RECURSIVE SkipWhitespaceBackward(_, _)
SkipWhitespaceBackward(text, pos) ==
    IF pos > 0 /\ isWhitespace(CharAt(text, pos))
    THEN SkipWhitespaceBackward(text, pos - 1)
    ELSE pos

findNextWordBoundary(text, startPos) ==
    IF startPos >= Len(text) THEN Len(text)
    ELSE LET afterWord == findCurrentWordEnd(text, startPos)
             afterSpace == SkipWhitespaceForward(text, afterWord)
         IN  findCurrentWordEnd(text, afterSpace)

\* a boundary search that does not move
PreviousBoundaryStays(text, startPos) == startPos

findPreviousWordBoundary(text, startPos) ==
    IF startPos <= 0 THEN 0
    ELSE findCurrentWordStart(text, SkipWhitespaceBackward(text, startPos - 1))

\* a shrink that is not clamped at the anchor
Unclamped(a, b) == a

Max(a, b) == IF a > b THEN a ELSE b

\* a selection written as a cursor at its end
CollapsedAtEnd(w, start, end, dir, key) ==
    [value |-> w.value, start |-> end, end |-> end, dir |-> "none", key |-> key,
     from |-> [start |-> w.start, end |-> w.end, dir |-> w.dir]]

setSelectionRange(w, start, end, dir, key) ==
    [value |-> w.value, start |-> start, end |-> end, dir |-> dir, key |-> key,
     from |-> [start |-> w.start, end |-> w.end, dir |-> w.dir]]

InsideWord(value, pos) ==
    /\ pos > 0
    /\ pos < Len(value)
    /\ isWordChar(CharAt(value, pos))
    /\ isWordChar(CharAt(value, pos - 1))

selectNextWordInInput ==
    LET value == word.value
        start == word.start
        end == word.end
    IN  IF word.dir = "backward" /\ start # end
        THEN LET newStart == Min(findNextWordBoundary(value, start), end)
             IN  word' = setSelectionRange(word, newStart, end,
                                           IF newStart < end THEN "backward" ELSE "none",
                                           "next")
        ELSE IF start = end /\ InsideWord(value, end)
        THEN word' = setSelectionRange(word, findCurrentWordStart(value, end),
                                       findCurrentWordEnd(value, end), "forward", "next")
        ELSE word' = setSelectionRange(word, start, findNextWordBoundary(value, end),
                                       "forward", "next")

selectPreviousWordInInput ==
    LET value == word.value
        start == word.start
        end == word.end
    IN  IF word.dir = "forward" /\ start # end
        THEN LET newEnd == Max(findPreviousWordBoundary(value, end), start)
             IN  word' = setSelectionRange(word, start, newEnd,
                                           IF newEnd > start THEN "forward" ELSE "none",
                                           "previous")
        ELSE IF start = end /\ InsideWord(value, start)
        THEN word' = setSelectionRange(word, findCurrentWordStart(value, start),
                                       findCurrentWordEnd(value, start), "backward",
                                       "previous")
        ELSE word' = setSelectionRange(word, findPreviousWordBoundary(value, start), end,
                                       "backward", "previous")

\* the field as the user left it: any text, any cursor or selection
WordInit ==
    /\ \E value \in FieldTexts :
          \E start \in 0..Len(value) :
             \E end \in start..Len(value) :
                \E dir \in {"none", "forward", "backward"} :
                   word = [IdleWord EXCEPT !.value = value, !.start = start, !.end = end,
                                           !.dir = dir,
                                           !.from = [start |-> start, end |-> end,
                                                     dir |-> dir]]
    /\ rawTokens = <<>>
    /\ normalized = Unset
    /\ renormalized = Unset
    /\ permuted = Unset
    /\ presets = <<>>
    /\ validation = NoValidation
    /\ shortcutMap = BuildShortcutMap(<<>>)
    /\ RunIdle
    /\ probe = IdleProbe
    /\ llm = IdleLLM
    /\ pro = IdlePro
    /\ UiIdle

WordNext ==
    \/ selectNextWordInInput /\ UNCHANGED <<normVars, regVars, shortcutMap, runVars, probe, llm, pro, uiVars>>
    \/ selectPreviousWordInInput /\ UNCHANGED <<normVars, regVars, shortcutMap, runVars, probe, llm, pro, uiVars>>

SpecWord == WordInit /\ [][WordNext]_vars

(***************************************************************************)
(* WordSelectionHandler: the key-down listener (SpecArrow)                 *)
(* The focus is a chain of elements: document.activeElement first, then,   *)
(* for each shadow host, the activeElement of its shadow root.             *)
(***************************************************************************)
SelectionModifiers == {"Alt", "Ctrl", "Shift", "Meta"}
ArrowKeys == {"ArrowRight", "ArrowLeft", "ArrowUp"}

KeyboardEvents ==
    [key : ArrowKeys, altKey : BOOLEAN, ctrlKey : BOOLEAN, shiftKey : BOOLEAN,
     metaKey : BOOLEAN]

\* "host" is an element with a shadow root; "checkbox" and "readonly" are
\* inputs that take no text
FocusChains ==
    {<<>>, <<"input">>, <<"div">>, <<"checkbox">>, <<"readonly">>, <<"host">>,
     <<"host", "textarea">>, <<"host", "div">>, <<"host", "host", "contenteditable">>}

\* the text of the focused input or textarea
ArrowText == "a a"

\* the configured flag alone, whatever else is held
ModifierFlagOnly(modifier, event) ==
    CASE modifier = "Ctrl" -> event.ctrlKey
      [] modifier = "Shift" -> event.shiftKey
      [] modifier = "Meta" -> event.metaKey
      [] OTHER -> event.altKey

isModifierActive(modifier, event) ==
    CASE modifier = "Alt" -> event.altKey /\ ~event.ctrlKey /\ ~event.metaKey
      [] modifier = "Ctrl" -> event.ctrlKey /\ ~event.altKey /\ ~event.metaKey
      [] modifier = "Shift" ->
            event.shiftKey /\ ~event.altKey /\ ~event.ctrlKey /\ ~event.metaKey
      [] modifier = "Meta" -> event.metaKey /\ ~event.altKey /\ ~event.ctrlKey
      [] OTHER -> event.altKey /\ ~event.ctrlKey /\ ~event.metaKey

\* while (element?.shadowRoot) element = element.shadowRoot.activeElement
RECURSIVE getDeepActiveElement(_)
getDeepActiveElement(chain) ==
    IF chain = <<>> THEN "null"
    ELSE IF Head(chain) = "host" THEN getDeepActiveElement(Tail(chain))
    ELSE Head(chain)

\* InputHandler.getInputType
getInputType(element) ==
    IF element \in {"input", "textarea", "contenteditable"} THEN element ELSE "unknown"

\* InputHandler.isEditableElement: text inputs, textareas and contenteditable
\* elements; not disabled or read-only ones, not checkboxes and the like
isEditableElement(element) == getInputType(element) # "unknown"

\* what a listener call that returned early leaves behind
Unhandled(event) ==
    [arrow EXCEPT !.event = event, !.prevented = FALSE, !.called = "none",
                  !.modify = "none"]

\* selectNextWord / selectPreviousWord on the deeply focused element
selectWord(event, element, direction) ==
    LET inputType == getInputType(element)
    IN  /\ arrow' = [arrow EXCEPT
                       !.event = event, !.prevented = TRUE,
                       !.called = IF direction = "forward" THEN "selectNextWord"
                                  ELSE "selectPreviousWord",
                       !.modify = IF inputType = "contenteditable" THEN direction
                                  ELSE "none"]
        /\ IF inputType \in {"input", "textarea"}
           THEN IF direction = "forward" THEN selectNextWordInInput
                ELSE selectPreviousWordInInput
           ELSE UNCHANGED word

\* WordSelectionHandler.handleKeyDown, the capture-phase listener
WordSelectionHandleKeyDown(event) ==
    IF ~arrow.enabled
    THEN arrow' = Unhandled(event) /\ UNCHANGED word
    ELSE IF ~isModifierActive(arrow.modifier, event)
    THEN arrow' = Unhandled(event) /\ UNCHANGED word
    ELSE LET activeElement == getDeepActiveElement(arrow.chain)
         IN  IF ~isEditableElement(activeElement)
             THEN arrow' = Unhandled(event) /\ UNCHANGED word
             ELSE IF event.key = "ArrowRight"
             THEN selectWord(event, activeElement, "forward")
             ELSE IF event.key = "ArrowLeft"
             THEN selectWord(event, activeElement, "backward")
             ELSE arrow' = Unhandled(event) /\ UNCHANGED word

\* the observation of the last listener call is dropped by any other step
Forgotten == [arrow EXCEPT !.event = NoEvent, !.prevented = FALSE, !.called = "none",
                           !.modify = "none"]

enable ==
    /\ ~arrow.enabled
    /\ arrow' = [Forgotten EXCEPT !.enabled = TRUE]
    /\ UNCHANGED word

disable ==
    /\ arrow.enabled
    /\ arrow' = [Forgotten EXCEPT !.enabled = FALSE]
    /\ UNCHANGED word

setModifier(modifier) ==
    /\ modifier # arrow.modifier
    /\ arrow' = [Forgotten EXCEPT !.modifier = modifier]
    /\ UNCHANGED word

\* the focus moves: document.activeElement and the shadow roots' activeElement
FocusChange(chain) ==
    /\ chain # arrow.chain
    /\ arrow' = [Forgotten EXCEPT !.chain = chain]
    /\ UNCHANGED word

ArrowInit ==
    /\ arrow = IdleArrow
    /\ popup = IdlePopup
    /\ infoDialog = NoDialog
    /\ \E start \in 0..Len(ArrowText) :
          word = [IdleWord EXCEPT !.value = ArrowText, !.start = start, !.end = start,
                                  !.from = [start |-> start, end |-> start,
                                            dir |-> "none"]]
    /\ rawTokens = <<>>
    /\ normalized = Unset
    /\ renormalized = Unset
    /\ permuted = Unset
    /\ presets = <<>>
    /\ validation = NoValidation
    /\ shortcutMap = BuildShortcutMap(<<>>)
    /\ RunIdle
    /\ probe = IdleProbe
    /\ llm = IdleLLM
    /\ pro = IdlePro

arrowFrame == <<normVars, regVars, shortcutMap, runVars, probe, llm, pro, popup, infoDialog>>

ArrowNext ==
    \/ \E event \in KeyboardEvents : WordSelectionHandleKeyDown(event) /\ UNCHANGED arrowFrame
    \/ enable /\ UNCHANGED arrowFrame
    \/ disable /\ UNCHANGED arrowFrame
    \/ \E modifier \in SelectionModifiers : setModifier(modifier) /\ UNCHANGED arrowFrame
    \/ \E chain \in FocusChains : FocusChange(chain) /\ UNCHANGED arrowFrame

SpecArrow == ArrowInit /\ [][ArrowNext]_vars

(***************************************************************************)
(* Popup.vue: the cross-promo banner and the resize observer (SpecPopup)   *)
(* Heights are in CSS pixels. The wrapper holds the header, the tabs, the  *)
(* tab content and, when shown, the banner; it is capped by max-height.    *)
(***************************************************************************)
POPUP_MAX_HEIGHT == 590
BANNER_HEIGHT == 52
WRAPPER_MAX_HEIGHT == 600

\* heights of everything in the wrapper but the banner
ContentHeights == {500, 535, 538, 539, 560, 590, 591, 640}

\* heights at which AllExtensionsBanner renders: BANNER_HEIGHT is the
\* estimate of the source, the rendering may come out shorter or taller
BannerHeights == {BANNER_HEIGHT - 8, BANNER_HEIGHT, BANNER_HEIGHT + 8}

\* entry.contentRect.height of the wrapper
WrapperHeight(p) ==
    Min(p.content + (IF p.showBanner THEN p.banner ELSE 0), WRAPPER_MAX_HEIGHT)

\* the ResizeObserver callback, delivered when the wrapper's size has changed
ResizeObserved ==
    LET h == WrapperHeight(popup)
    IN  /\ h # popup.observed
        /\ popup' =
              IF popup.showBanner /\ h > POPUP_MAX_HEIGHT
              THEN [popup EXCEPT !.observed = h, !.showBanner = FALSE,
                                 !.hiddenAt = popup.content]
              ELSE IF ~popup.showBanner /\ h + BANNER_HEIGHT <= POPUP_MAX_HEIGHT
              THEN [popup EXCEPT !.observed = h, !.showBanner = TRUE,
                                 !.shownAt = popup.content]
              ELSE [popup EXCEPT !.observed = h]

\* the user switches tabs, opens or closes an editor section: the content
\* takes another height
ContentResizes(height) ==
    /\ height # popup.content
    /\ popup' = [popup EXCEPT !.content = height]

\* the popup opens: showBanner = ref(true), nothing observed yet
PopupInit ==
    /\ \E height \in ContentHeights, banner \in BannerHeights :
          popup = [IdlePopup EXCEPT !.content = height, !.banner = banner]
    /\ arrow = IdleArrow
    /\ infoDialog = NoDialog
    /\ rawTokens = <<>>
    /\ normalized = Unset
    /\ renormalized = Unset
    /\ permuted = Unset
    /\ presets = <<>>
    /\ validation = NoValidation
    /\ shortcutMap = BuildShortcutMap(<<>>)
    /\ RunIdle
    /\ word = IdleWord
    /\ probe = IdleProbe
    /\ llm = IdleLLM
    /\ pro = IdlePro

popupFrame ==
    <<normVars, regVars, shortcutMap, runVars, word, probe, llm, pro, arrow, infoDialog>>

PopupNext ==
    \/ ResizeObserved /\ UNCHANGED popupFrame
    \/ \E height \in ContentHeights : ContentResizes(height) /\ UNCHANGED popupFrame

SpecPopup == PopupInit /\ [][PopupNext]_vars

(***************************************************************************)
(* Verification of one insertion attempt (SpecVerify)                      *)
(***************************************************************************)
MaxProbeLen == 2
ProbeChars == {"a", "b"}

RECURSIVE ProbeTextsOfLen(_)
ProbeTextsOfLen(n) ==
    IF n = 0 THEN {""} ELSE {t \o c : t \in ProbeTextsOfLen(n - 1), c \in ProbeChars}

ProbeTexts(n) == UNION {ProbeTextsOfLen(k) : k \in 0..n}

\* an LLM answer with paragraph breaks, inserted into an editor that turns
\* each "\n\n" into one "\n"
ParagraphExample ==
    [textBefore |-> "please translate me!", text |-> "Dear Sir,\n\nThank you.\n\nBye.", current |-> "Dear Sir,\nThank you.\nBye.", verdict |-> "unset"]

VerifyInit ==
    /\ \/ probe = ParagraphExample
       \/ \E textBefore \in ProbeTexts(MaxProbeLen) :
             \E text \in ProbeTexts(MaxProbeLen) \ {""} :
                \E current \in ProbeTexts(MaxProbeLen + 1) :
                   probe = [textBefore |-> textBefore, text |-> text,
                            current |-> current, verdict |-> "unset"]
    /\ rawTokens = <<>>
    /\ normalized = Unset
    /\ renormalized = Unset
    /\ permuted = Unset
    /\ presets = <<>>
    /\ validation = NoValidation
    /\ shortcutMap = BuildShortcutMap(<<>>)
    /\ RunIdle
    /\ word = IdleWord
    /\ llm = IdleLLM
    /\ pro = IdlePro
    /\ UiIdle

\* one insertion attempt has been made: verify it
Verify ==
    /\ probe.verdict = "unset"
    /\ probe' = [probe EXCEPT !.verdict =
                    IF verifyInsertion(probe.current, probe.text, probe.textBefore)
                    THEN "success" ELSE "failure"]
    /\ UNCHANGED <<normVars, regVars, shortcutMap, runVars, word, llm, pro, uiVars>>

VerifyNext == Verify

SpecVerify == VerifyInit /\ [][VerifyNext]_vars

(***************************************************************************)
(* LLM prompt with the pending indicator written into the field (SpecLLM)  *)
(***************************************************************************)
MaxElapsed == 2
PendingMarker == "~"
LLMResults == {"xyz", "q"}

\* the indicator shown after the original text, with the elapsed seconds
PendingText(original, elapsed) ==
    original \o PendingMarker \o (IF elapsed = 0 THEN "" ELSE Ch(Digits, elapsed + 1))

\* selectionPrefix + <selected text or result> + selectionSuffix
FullField(body) == llm.prefix \o body \o llm.suffix

\* a finally block that does not wait for the write in flight
NoWait == TRUE

\* await pendingWritePromise: the last started pending write has completed
pendingWriteSettled == llm.write = "none"

\* writePending(): a full-field write of the indicator, unless cancelled
writePending(l) ==
    IF l.cancelled THEN l
    ELSE [l EXCEPT !.write = "focus",
                   !.writeText = FullField(PendingText(l.original, l.elapsed))]

\* the llm-prompt branch of processText starts: offsets captured, call sent,
\* pendingTimer armed
StartPrompt ==
    /\ llm.phase = "idle"
    /\ llm' = [llm EXCEPT
                 !.phase = "waiting",
                 !.timer = "threshold",
                 !.snapshot = field.text,
                 !.prefix = IF hasSelection(field) THEN SubSeq(field.text, 1, field.selStart)
                            ELSE "",
                 !.original = IF hasSelection(field) THEN SelectedText(field)
                              ELSE field.text,
                 !.suffix = IF hasSelection(field)
                            THEN SubSeq(field.text, field.selEnd + 1, Len(field.text))
                            ELSE ""]
    /\ UNCHANGED field

\* the call is still pending after the threshold: show the indicator
PendingTimerFires ==
    /\ llm.timer = "threshold"
    /\ llm' = writePending([llm EXCEPT !.timer = "interval", !.pendingShown = TRUE])
    /\ UNCHANGED field

\* the interval refreshes the elapsed counter; a write takes two short delays
\* and has completed long before the next tick
IntervalFires ==
    /\ llm.timer = "interval"
    /\ llm.elapsed < MaxElapsed
    /\ llm.write = "none"
    /\ llm' = writePending([llm EXCEPT !.elapsed = @ + 1])
    /\ UNCHANGED field

\* setTextValue of a pending write: focus, delay, selectAll, delay, insert
PendingWriteStep ==
    /\ llm.write # "none"
    /\ IF llm.write = "focus"
       THEN /\ field' = selectAll(field)
            /\ llm' = [llm EXCEPT !.write = "select"]
       ELSE /\ field' = Inserted(field, llm.writeText)
            /\ llm' = [llm EXCEPT !.write = "none"]

\* LLMPromptExecutor.execute resolves: finally { cancelled = true; clear timers; ... }
LLMResponds(result) ==
    /\ llm.phase = "waiting"
    /\ llm' = [llm EXCEPT !.phase = "cancelling", !.cancelled = TRUE, !.timer = "off",
                          !.result = result, !.raced = llm.write # "none"]
    /\ UNCHANGED field

\* LLMPromptExecutor.execute throws (abort, network error, API error)
LLMFails ==
    /\ llm.phase = "waiting"
    /\ llm' = [llm EXCEPT !.phase = "cancelling", !.cancelled = TRUE, !.timer = "off",
                          !.failed = TRUE, !.raced = llm.write # "none"]
    /\ UNCHANGED field

\* a catch block that only reports the failure
BeginFinalNoRestore ==
    /\ llm.phase = "cancelling"
    /\ pendingWriteSettled
    /\ llm' = IF ~llm.failed
              THEN [llm EXCEPT !.phase = "final", !.final = "focus",
                               !.finalText = FullField(llm.result)]
              ELSE [llm EXCEPT !.phase = "done"]
    /\ UNCHANGED field

\* after the finally block: the final replace, or the restoration of the
\* snapshot when the indicator had been shown
BeginFinal ==
    /\ llm.phase = "cancelling"
    /\ pendingWriteSettled
    /\ llm' = IF ~llm.failed
              THEN [llm EXCEPT !.phase = "final", !.final = "focus",
                               !.finalText = FullField(llm.result)]
              ELSE IF llm.pendingShown /\ llm.snapshot # ""
              THEN [llm EXCEPT !.phase = "final", !.final = "focus",
                               !.finalText = llm.snapshot]
              ELSE [llm EXCEPT !.phase = "done"]
    /\ UNCHANGED field

\* setTextValue of the final write
FinalWriteStep ==
    /\ llm.phase = "final"
    /\ IF llm.final = "focus"
       THEN /\ field' = selectAll(field)
            /\ llm' = [llm EXCEPT !.final = "select"]
       ELSE /\ field' = Inserted(field, llm.finalText)
            /\ llm' = [llm EXCEPT !.final = "done", !.phase = "done"]

LLMScenes ==
    {[text |-> "abc", selStart |-> sel[1], selEnd |-> sel[2]] :
        sel \in {<<0, 0>>, <<3, 3>>, <<0, 2>>, <<1, 2>>}}

LLMInit ==
    /\ field \in LLMScenes
    /\ llm = IdleLLM
    /\ pro = IdlePro
    /\ UiIdle
    /\ focused = TRUE
    /\ host = "plain"
    /\ isProcessing = FALSE
    /\ sequenceDetector = Idle
    /\ pc = "idle"
    /\ op = NoOp
    /\ keysDown = {}
    /\ modifiers = {}
    /\ pageSelection = ""
    /\ lastKeyDown = NoKeyDown
    /\ lastAbandoned = ""
    /\ contentAtStart = ""
    /\ outcome = "none"
    /\ alerts = 0
    /\ inFlight = 0
    /\ pageAtStart = ""
    /\ away = NoAway
    /\ calls = NoCalls
    /\ rawTokens = <<>>
    /\ normalized = Unset
    /\ renormalized = Unset
    /\ permuted = Unset
    /\ presets = <<>>
    /\ validation = NoValidation
    /\ shortcutMap = BuildShortcutMap(<<>>)
    /\ word = IdleWord
    /\ probe = IdleProbe

llmFrame ==
    <<normVars, regVars, shortcutMap, handlerVars, keysDown, modifiers, focused, host,
      pageSelection, obsVars, word, probe, pro, uiVars>>

LLMNext ==
    \/ StartPrompt /\ UNCHANGED llmFrame
    \/ PendingTimerFires /\ UNCHANGED llmFrame
    \/ IntervalFires /\ UNCHANGED llmFrame
    \/ PendingWriteStep /\ UNCHANGED llmFrame
    \/ \E result \in LLMResults : LLMResponds(result) /\ UNCHANGED llmFrame
    \/ LLMFails /\ UNCHANGED llmFrame
    \/ BeginFinal /\ UNCHANGED llmFrame
    \/ FinalWriteStep /\ UNCHANGED llmFrame

SpecLLM == LLMInit /\ [][LLMNext]_vars

(***************************************************************************)
(* usePro: the freemium status, the beta code and locked presets (SpecPro) *)
(***************************************************************************)
\* the clock counts whole days since the epoch: the cutoff is midnight UTC of
\* 2026-03-15, so Date.now() < BETA_CUTOFF_DATE compares the day numbers
BETA_CUTOFF_DATE == 20527
FREE_MAX_PRESETS == 5
BETA_CODE == "ILOVEPOWERINPUT<3"
Infinity == 1000000

DaysBefore == 1
DaysAfter == 1
FirstDay == BETA_CUTOFF_DATE - DaysBefore
LastDay == BETA_CUTOFF_DATE + DaysAfter

ProStatuses == {"free", "beta_unlocked", "pro_paid"}

\* codes a user types: the code, the code in another case with blanks around
\* it, a wrong code, nothing
BetaCodes == {BETA_CODE, " ilovepowerinput<3 ", "ILOVEPOWERINPUT", ""}

RECURSIVE trimStart(_)
trimStart(str) ==
    IF Len(str) > 0 /\ isWhitespace(Ch(str, 1))
    THEN trimStart(SubSeq(str, 2, Len(str)))
    ELSE str

RECURSIVE trimEnd(_)
trimEnd(str) ==
    IF Len(str) > 0 /\ isWhitespace(Ch(str, Len(str)))
    THEN trimEnd(SubSeq(str, 1, Len(str) - 1))
    ELSE str

trim(str) == trimEnd(trimStart(str))

\* loadProStatus(): the stored value if it is a status, else the default
loadProStatus(stored) == IF stored \in ProStatuses THEN stored ELSE "free"

\* an activation window that never closes
BetaAlwaysActive(clock) == TRUE

isBetaActive(clock) == clock < BETA_CUTOFF_DATE

\* beta access that does not expire
UnlimitedOnceUnlocked(status, clock) == status \in {"beta_unlocked", "pro_paid"}

isUnlimited(status, clock) ==
    \/ status = "beta_unlocked" /\ clock < BETA_CUTOFF_DATE
    \/ status = "pro_paid"

getMaxPresets(status, clock) ==
    IF isUnlimited(status, clock) THEN Infinity ELSE FREE_MAX_PRESETS

\* index is 0-based
isPresetLocked(index, status, clock) ==
    IF isUnlimited(status, clock) THEN FALSE ELSE index >= FREE_MAX_PRESETS

\* what activateBetaCode returns and the status it sets
BetaActivation(code, status, clock) ==
    IF status = "beta_unlocked" THEN [result |-> "success", status |-> status, save |-> FALSE]
    ELSE IF ~isBetaActive(clock)
    THEN [result |-> "beta_expired", status |-> status, save |-> FALSE]
    ELSE IF toUpperCase(trim(code)) # toUpperCase(BETA_CODE)
    THEN [result |-> "invalid_code", status |-> status, save |-> FALSE]
    ELSE [result |-> "success", status |-> "beta_unlocked", save |-> TRUE]

activateBetaCode(code) ==
    /\ pro.saving = "none"
    /\ LET r == BetaActivation(code, pro.proStatus, pro.now)
       IN  pro' = [pro EXCEPT
                     !.proStatus = r.status,
                     !.saving = IF r.save THEN r.status ELSE "none",
                     !.activation = [code |-> code, at |-> pro.now,
                                     before |-> pro.proStatus,
                                     storedBefore |-> pro.stored,
                                     after |-> r.status,
                                     storedAfter |-> pro.stored,
                                     saved |-> r.save,
                                     result |-> r.result]]
    /\ UNCHANGED <<presets, shortcutMap>>

\* the stub: any license key sets pro_paid
activateProLicense ==
    /\ pro.saving = "none"
    /\ pro' = [pro EXCEPT !.proStatus = "pro_paid", !.saving = "pro_paid"]
    /\ UNCHANGED <<presets, shortcutMap>>

\* chrome.storage.sync.set succeeds; the onChanged listener sees the new value
saveProStatus ==
    /\ pro.saving # "none"
    /\ pro' = [pro EXCEPT !.stored = pro.saving, !.proStatus = pro.saving,
                          !.saving = "none"]
    /\ UNCHANGED <<presets, shortcutMap>>

\* chrome.storage.sync.set throws: the error is logged, nothing is stored
saveProStatusFails ==
    /\ pro.saving # "none"
    /\ pro' = [pro EXCEPT !.saving = "none"]
    /\ UNCHANGED <<presets, shortcutMap>>

\* chrome.storage.onChanged for a write made by another tab or device
storageChanged(newValue) ==
    /\ newValue # pro.stored
    /\ pro' = [pro EXCEPT !.stored = newValue,
                          !.proStatus = IF newValue \in ProStatuses THEN newValue ELSE @]
    /\ UNCHANGED <<presets, shortcutMap>>

\* a day passes
Tick ==
    /\ pro.now < LastDay
    /\ pro' = [pro EXCEPT !.now = @ + 1]
    /\ UNCHANGED <<presets, shortcutMap>>

canAddPreset == Len(presets) < getMaxPresets(pro.proStatus, pro.now)

\* addPreset of the presets tab, followed by the handler's rebuildShortcutMap
addPreset ==
    /\ canAddPreset
    /\ Len(presets) < MaxSavedPresets
    /\ presets' = Append(presets, [id |-> Len(presets) + 1,
                                   keyboardShortcut |-> generateDefaultShortcut(Len(presets) + 1)])
    /\ shortcutMap' = BuildShortcutMap(presets')
    /\ UNCHANGED pro

ProInit ==
    /\ \E stored \in ProStatuses \cup {"unset"} :
          \E day \in FirstDay..LastDay :
             pro = [IdlePro EXCEPT !.stored = stored, !.now = day,
                                   !.proStatus = loadProStatus(stored)]
    /\ presets = OnboardingPresets
    /\ shortcutMap = BuildShortcutMap(OnboardingPresets)
    /\ validation = NoValidation
    /\ rawTokens = <<>>
    /\ normalized = Unset
    /\ renormalized = Unset
    /\ permuted = Unset
    /\ RunIdle
    /\ word = IdleWord
    /\ probe = IdleProbe
    /\ llm = IdleLLM
    /\ UiIdle

proFrame == <<normVars, validation, runVars, word, probe, llm, uiVars>>

ProNext ==
    \/ \E code \in BetaCodes : activateBetaCode(code) /\ UNCHANGED proFrame
    \/ activateProLicense /\ UNCHANGED proFrame
    \/ saveProStatus /\ UNCHANGED proFrame
    \/ saveProStatusFails /\ UNCHANGED proFrame
    \/ \E newValue \in ProStatuses : storageChanged(newValue) /\ UNCHANGED proFrame
    \/ Tick /\ UNCHANGED proFrame
    \/ addPreset /\ UNCHANGED proFrame

SpecPro == ProInit /\ [][ProNext]_vars

(***************************************************************************)
(* Properties of the normalizer (SpecNorm)                                 *)
(***************************************************************************)
InputModifiers == ModifiersOf(rawTokens)
InputKeys == RawKeys(rawTokens)
Accepted == normalized # Unset /\ normalized # Rejected

\* C7: for every modifier set and every pair of distinct non-modifier keys,
\* normalizing the combination with the keys given as K1 then K2 yields the
\* same normalized shortcut as with the keys given as K2 then K1.
C7_KeyOrderInsensitive ==
    (/\ normalized # Unset
     /\ permuted # Unset
     /\ Len(InputKeys) = 2
     /\ NormalizeKey(InputKeys[1]) # NormalizeKey(InputKeys[2]))
    => normalized = permuted

C7_Witness ==
    /\ Accepted
    /\ permuted # Unset
    /\ Len(InputKeys) = 2
    /\ NormalizeKey(InputKeys[1]) # NormalizeKey(InputKeys[2])
    /\ StrLess(NormalizeKey(InputKeys[2]), NormalizeKey(InputKeys[1]))

\* C8: normalize is idempotent on every valid shortcut: normalizing an
\* already normalized shortcut string returns that same string.
C8_Idempotent ==
    (Accepted /\ renormalized # Unset) => renormalized = normalized

C8_Witness ==
    /\ Accepted
    /\ renormalized # Unset
    /\ normalized # Join(rawTokens)
    /\ \E i \in 1..Len(rawTokens) : rawTokens[i] = "Numpad1"

\* C9: normalize accepts no combination with zero modifiers, without a
\* non-modifier key or with more than two non-modifier keys; every accepted
\* normalized shortcut has at least one modifier and one or two keys.
C9_AcceptedShape ==
    /\ (normalized # Unset /\ (InputModifiers = {} \/ Len(InputKeys) \notin 1..2))
          => normalized = Rejected
    /\ Accepted =>
          /\ ShortcutMods(normalized) # {}
          /\ Len(ShortcutKeys(normalized)) \in 1..2

\* a combination with modifiers and three keys has been normalized
C9_Witness ==
    /\ normalized = Rejected
    /\ InputModifiers # {}
    /\ Len(InputKeys) = 3

(***************************************************************************)
(* Properties of the registration (SpecReg)                                *)
(***************************************************************************)
\* a is a prefix of b: same modifiers, a has one key, b has two, a's key is one of b's
IsPrefixOf(a, b) ==
    /\ a # Rejected
    /\ b # Rejected
    /\ ShortcutMods(a) = ShortcutMods(b)
    /\ Len(ShortcutKeys(a)) = 1
    /\ Len(ShortcutKeys(b)) = 2
    /\ \E i \in 1..2 : ShortcutKeys(b)[i] = ShortcutKeys(a)[1]

\* the presets the last validated shortcut was checked against and that are still configured
CheckedAgainst ==
    {i \in PresetIndices(presets) : presets[i].id # validation.editing}

Validated == validation.kind # "none" /\ validation.candidate # Rejected

\* C3: after every rebuild of the dispatch table the table is conflict-free:
\* no two presets share a normalized shortcut, every preset has its own
\* entry, and no 1-key entry is a prefix of a 2-key entry.
C3_TableConflictFree ==
    /\ \A i, j \in PresetIndices(presets) :
          i # j => NormalizedOf[presets[i].keyboardShortcut]
                      # NormalizedOf[presets[j].keyboardShortcut]
    /\ Cardinality(DOMAIN shortcutMap) = Len(presets)
    /\ \A a, b \in DOMAIN shortcutMap : ~IsPrefixOf(a, b)

\* C4: a 2-key candidate whose modifiers equal those of an existing 1-key
\* shortcut of preset P and whose keys include P's key is reported as a
\* prefix conflict naming such a preset, whichever key sorts first.
C4_TwoKeyCandidateConflicts ==
    (/\ Validated
     /\ \E i \in CheckedAgainst :
           IsPrefixOf(presets[i].keyboardShortcut, validation.candidate))
    => /\ validation.kind = "conflict"
       /\ IsPrefixOf(validation.ownerShortcut, validation.candidate)

\* C5: a 1-key candidate M+K is rejected as a prefix conflict whenever an
\* existing 2-key shortcut has modifiers M and K as either of its keys, as
\* the opposite registration order is.
C5_OneKeyCandidateConflicts ==
    (/\ Validated
     /\ \E i \in CheckedAgainst :
           IsPrefixOf(validation.candidate, presets[i].keyboardShortcut))
    => validation.kind = "conflict"

\* C6: registering a shortcut whose normalized form equals that of an
\* already registered preset A is rejected as a duplicate naming A, and the
\* rejected attempt leaves the registered shortcuts unchanged; a key-order
\* permutation of A's 2-key shortcut included.
C6_DuplicateRejected ==
    [][(/\ validation' # validation
        /\ validation'.candidate # Rejected
        /\ \E i \in PresetIndices(presets) :
              /\ presets[i].id # validation'.editing
              /\ NormalizedOf[presets[i].keyboardShortcut] = validation'.candidate)
       => /\ validation'.kind = "duplicate"
          /\ validation'.owner # validation'.editing
          /\ NormalizedOf[validation'.ownerShortcut] = validation'.candidate
          /\ presets' = presets
          /\ shortcutMap' = shortcutMap]_vars

\* a permutation of a registered 2-key shortcut has been rejected as a duplicate
C6_Witness ==
    /\ validation.kind = "duplicate"
    /\ validation.raw # validation.candidate
    /\ Len(ShortcutKeys(validation.candidate)) = 2
    /\ \E i \in CheckedAgainst : presets[i].id = validation.owner

\* C36: the presets list is never emptied through the presets tab: at least
\* one preset remains after any sequence of add and delete requests, and a
\* delete request issued when exactly one preset remains removes nothing and
\* only shows the 'Cannot Delete' dialog.
C36_NeverEmptied ==
    /\ [](Len(presets) >= 1)
    /\ [][Len(presets) = 1
          => /\ IdsOf(presets) \subseteq IdsOf(presets')
             /\ (infoDialog' # infoDialog /\ infoDialog'.show)
                   => /\ infoDialog'.title = "Cannot Delete"
                      /\ presets' = presets
                      /\ shortcutMap' = shortcutMap
                      /\ validation' = validation]_vars

\* the only preset left was asked to be deleted and is still there
C36_Witness ==
    /\ infoDialog.show
    /\ infoDialog.title = "Cannot Delete"
    /\ Len(presets) = 1

(***************************************************************************)
(* Properties of the running handler (Spec)                                *)
(***************************************************************************)
Suspended == pc # "idle"

\* C1: at any moment at most one shortcut-triggered operation is in flight:
\* a key-down matching a registered shortcut while the busy flag is set
\* starts no second operation, wherever the running operation is suspended.
C1_SingleOperation ==
    /\ inFlight \in {0, 1}
    /\ isProcessing <=> inFlight = 1
    /\ Suspended <=> inFlight = 1
    /\ lastKeyDown.skipped => lastKeyDown.prevented

\* a matching key-down was skipped while an operation waits between two steps
C1_Witness ==
    /\ inFlight = 1
    /\ pc = "selectDelay"
    /\ lastKeyDown.skipped
    /\ lastKeyDown.preset # op.preset

\* C2: pressing modifiers+K1, releasing K1 without a second key, then
\* pressing modifiers+K2 dispatches only what is registered for
\* modifiers+K2: after K1's key-up no 2-key candidate K1+K2 is produced.
C2_AbandonedKeyDoesNotLeak ==
    /\ sequenceDetector.firstKey # NoKey => sequenceDetector.firstKey \in keysDown
    /\ lastKeyDown.armedKeyDown
    /\ lastKeyDown.afterAbandon # "" =>
          /\ lastKeyDown.sequenceShortcut = ""
          /\ lastKeyDown.preset =
                IF lastKeyDown.simpleShortcut \in DOMAIN shortcutMap
                THEN shortcutMap[lastKeyDown.simpleShortcut]
                ELSE NoOwner

\* Alt+1 was armed and released, then Alt+T dispatched its own preset
C2_Witness ==
    /\ lastKeyDown.afterAbandon = "1"
    /\ lastKeyDown.simpleShortcut = "Alt+T"
    /\ lastKeyDown.preset = shortcutMap["Alt+T"]
    /\ lastKeyDown.prevented

\* C10: if committing a result into the focused field fails verification in
\* all three insertion strategies, then once the operation has ended the
\* field's content is identical to the content captured before it began.
C10_RestoredOnFailure ==
    (pc = "idle" /\ outcome = "mutationFailed") => field.text = contentAtStart

Failed == outcome \in {"transformFailed", "mutationFailed"}

\* C11: a triggered operation that fails raises exactly one user-visible
\* notification and is not retried: for one triggered shortcut the transform
\* and the commit are each invoked at most once.
C11_OneNotificationNoRetry ==
    /\ calls.transform <= 1
    /\ calls.commit <= 1
    /\ Failed => (alerts = 1 /\ pc = "idle")
    /\ ~Failed => alerts = 0

\* the commit of a translated text failed in all strategies and was reported once
C11_Witness ==
    /\ outcome = "mutationFailed"
    /\ alerts = 1
    /\ calls.transform = 1
    /\ calls.commit = 1

\* C12: a matched shortcut that finds no focused field with non-blank text
\* and no non-blank page selection is a silent no-op: no transform, no
\* change of field or page, no notification, and the busy flag is released.
C12_NoTargetSilent ==
    (lastKeyDown.prevented /\ ~lastKeyDown.skipped /\ lastKeyDown.targetless)
    => /\ outcome = "noTarget"
       /\ ~isProcessing
       /\ pc = "idle"
       /\ calls = NoCalls
       /\ alerts = 0
       /\ field.text = contentAtStart
       /\ pageSelection = pageAtStart

\* Alt+T was pressed with the focus in a field that holds only a blank
C12_Witness ==
    /\ lastKeyDown.prevented
    /\ ~lastKeyDown.skipped
    /\ lastKeyDown.targetless
    /\ focused
    /\ lastKeyDown.preset = 1

HasMatch(seen) ==
    \/ seen.simpleShortcut \in DOMAIN shortcutMap
    \/ (seen.sequenceShortcut # "" /\ seen.sequenceShortcut \in DOMAIN shortcutMap)

\* C13: a key-down has its default behaviour prevented only if its 1-key or
\* its 2-key candidate matches an entry of the dispatch table, and then at
\* most one action is dispatched for it; a key-down without a matching entry
\* is left untouched.
C13_PreventOnlyOnMatch ==
    [][/\ lastKeyDown'.prevented <=> HasMatch(lastKeyDown')
       /\ inFlight' <= inFlight + 1
       /\ (lastKeyDown' # lastKeyDown /\ ~lastKeyDown'.prevented)
             => (lastKeyDown'.preset = NoOwner
                 /\ UNCHANGED <<isProcessing, pc, op, field, pageSelection, outcome, calls>>)]_vars

\* a key-down matched by its 2-key candidate alone had its default prevented
C13_Witness ==
    /\ lastKeyDown.prevented
    /\ lastKeyDown.simpleShortcut \notin DOMAIN shortcutMap
    /\ lastKeyDown.sequenceShortcut \in DOMAIN shortcutMap

\* the steps the extension takes by itself: its timers and continuations
OwnStep == AfterFocusDelay \/ AfterSelectDelay \/ TryInsert

\* C14: every triggered operation eventually ends: while an operation is
\* running, a step of the extension itself (a delay, an insertion attempt or
\* the timeout of the request) can always move it on, so the busy flag
\* cannot stay set forever when the request never receives a response.
C14_BusyIsBounded ==
    isProcessing => ENABLED OwnStep

Attempts == calls.attempts

\* C17: the three insertion strategies are attempted strictly in the order
\* execCommand, synthetic paste, input-event pair; a strategy is attempted
\* only if every earlier one failed verification, the pipeline succeeds at
\* the first strategy that verifies and fails only after all three failed.
C17_StrategiesInOrder ==
    /\ Len(Attempts) <= 3
    /\ \A i \in 1..Len(Attempts) :
          /\ Attempts[i].n = i
          /\ i < Len(Attempts) => ~Attempts[i].ok
    /\ (Len(Attempts) > 0 /\ Attempts[Len(Attempts)].ok)
          => (outcome = "success" /\ pc = "idle")
    /\ (outcome = "success" /\ Len(Attempts) > 0) => Attempts[Len(Attempts)].ok
    /\ outcome = "mutationFailed"
          => (Len(Attempts) = 3 /\ \A i \in 1..3 : ~Attempts[i].ok)
    /\ (Len(Attempts) = 3 /\ ~Attempts[3].ok) => outcome = "mutationFailed"

\* the third strategy verified after the first two had failed
C17_Witness ==
    /\ outcome = "success"
    /\ Len(Attempts) = 3
    /\ Attempts[3].ok

\* a key-down of a key that was not down
KeyDownOf(key) == key \notin keysDown /\ keysDown' = keysDown \cup {key}

\* a suspended operation ends in this step
OperationEnds == pc # "idle" /\ pc' = "idle"

\* C26: whenever a dispatched operation ends, whether normally, with a
\* transform error or with a mutation failure, the busy flag is cleared and
\* the sequence detector is reset to Idle, so the next matching key-down is
\* accepted: no outcome leaves the handler permanently busy.
C26_EndClearsBusyAndDetector ==
    [][/\ OperationEnds
          => /\ outcome' \in {"success", "transformFailed", "mutationFailed"}
             /\ ~isProcessing'
             /\ sequenceDetector' = Idle
       /\ (pc = "idle" /\ pc' = "idle") => ~isProcessing'
       /\ (pc = "idle" /\ (\E key \in Keys : KeyDownOf(key)) /\ Matched(lastKeyDown'.preset))
          => ~lastKeyDown'.skipped]_vars

\* an operation that ended with a mutation failure after its three attempts:
\* the handler is idle and free again
C26_Witness ==
    /\ outcome = "mutationFailed"
    /\ Len(calls.attempts) = 3
    /\ pc = "idle"
    /\ ~isProcessing
    /\ sequenceDetector = Idle
    /\ inFlight = 0

\* the key whose key-down armed the detector and is still held with the
\* same modifiers, no other key-down having followed
StillArmed(k1) ==
    /\ k1 \in keysDown
    /\ modifiers # {}
    /\ lastKeyDown.simpleShortcut = SimpleShortcutOf[modifiers, k1]
    /\ lastKeyDown.sequenceShortcut = ""
    /\ lastKeyDown.skipped \/ ~Matched(lastKeyDown.preset)

\* C27: if the user arms a 2-key sequence (modifiers+K1 held down) while an
\* earlier operation is in flight and that operation then completes, a
\* following key-down of a different key K2, the modifiers and K1 still
\* held, is still combined with K1 into the candidate K1+K2 and dispatched.
C27_ArmedSurvivesCompletion ==
    [][\A k1 \in Keys, k2 \in Keys :
          (k1 # k2 /\ StillArmed(k1) /\ KeyDownOf(k2) /\ modifiers' = modifiers)
          => LET candidate == SequenceShortcutOf[modifiers, k1, k2]
             IN  /\ lastKeyDown'.sequenceShortcut = candidate
                 /\ (candidate \in DOMAIN shortcutMap
                       /\ lastKeyDown'.simpleShortcut \notin DOMAIN shortcutMap)
                    => lastKeyDown'.preset = shortcutMap[candidate]]_vars

\* C28: if the document loses focus while the sequence detector is Armed
\* (so the armed key's key-up is never delivered), the detector returns to
\* Idle at the blur; it does not stay Armed until some later key event, and
\* a key pressed after focus returns cannot complete the stale sequence.
C28_BlurResetsDetector ==
    [][/\ away'.blurred => sequenceDetector' = Idle
       /\ (away.blurred /\ \E key \in Keys : KeyDownOf(key))
          => lastKeyDown'.sequenceShortcut = ""]_vars

\* C29: when an asynchronous transform resumes, its result is committed
\* only if the field captured before the suspension is still the focused
\* editable target; if focus moved away while the transform was pending, no
\* text is written into the original field.
C29_NoCommitAfterFocusMoved ==
    away.moved
    => /\ field.text = contentAtStart
       /\ calls.attempts = <<>>
       /\ pc \in {"translating", "idle"}

\* the key-down of `key` found a matching preset and was rejected by the
\* busy check
RejectedKeyDown(key) == KeyDownOf(key) /\ lastKeyDown'.skipped

\* C38 as stated: a matching key-down that is rejected because an operation
\* is already in flight changes no handler state: the busy flag stays set,
\* the sequence detector is not reset and the in-flight operation is
\* unaffected; the busy flag is cleared only by the completion of the
\* operation that set it.
C38_RejectedChangesNothing ==
    [][/\ (\E key \in Keys : RejectedKeyDown(key)) => handlerVars' = handlerVars
       /\ (isProcessing /\ ~isProcessing') => OperationEnds]_vars

\* C38, amended: a rejected matching key-down leaves the busy flag set and
\* the in-flight operation unaffected, and the detector makes exactly the
\* transition of processKeyDown for that key-down (every key-down is fed to
\* the detector before the busy check), with no reset() after it; the busy
\* flag is cleared only by the completion of the operation that set it.
C38_RejectedKeepsOperation ==
    [][/\ \A key \in Keys :
             RejectedKeyDown(key)
             => /\ isProcessing /\ isProcessing'
                /\ pc' = pc /\ op' = op /\ inFlight' = inFlight
                /\ field' = field /\ calls' = calls /\ outcome' = outcome
                /\ sequenceDetector'
                     = processKeyDown(sequenceDetector, key, modifiers).detector
       /\ (isProcessing /\ ~isProcessing')
          => (OperationEnds /\ inFlight' = inFlight - 1 /\ inFlight' = 0)]_vars

\* a key-down completing the registered 2-key sequence was rejected while a
\* translation was pending: the operation still waits, the detector is Idle
C38_Witness ==
    /\ lastKeyDown.skipped
    /\ lastKeyDown.sequenceShortcut # ""
    /\ lastKeyDown.sequenceShortcut \in DOMAIN shortcutMap
    /\ isProcessing
    /\ pc = "translating"
    /\ inFlight = 1
    /\ sequenceDetector = Idle

(***************************************************************************)
(* Properties of the word selection (SpecWord)                             *)
(***************************************************************************)
\* [a, b) is a maximal run of word characters of value
IsWholeWord(value, a, b) ==
    /\ a < b
    /\ \A i \in a..(b - 1) : isWordChar(CharAt(value, i))
    /\ a = 0 \/ ~isWordChar(CharAt(value, a - 1))
    /\ b = Len(value) \/ ~isWordChar(CharAt(value, b))

WasCollapsed == word.from.start = word.from.end

\* C18: with a collapsed cursor strictly inside a word, 'next' selects that
\* whole word with direction forward and 'previous' selects the same range
\* with direction backward; position 2 of "word" gives [0,4] in both cases.
C18_WholeWordFromInside ==
    (word.key # "none" /\ WasCollapsed /\ InsideWord(word.value, word.from.start))
    => /\ IsWholeWord(word.value, word.start, word.end)
       /\ word.start < word.from.start
       /\ word.from.start < word.end
       /\ word.dir = IF word.key = "next" THEN "forward" ELSE "backward"
       /\ (word.value = "word" /\ word.from.start = 2) => (word.start = 0 /\ word.end = 4)

\* 'previous' at position 2 of "word"
C18_Witness ==
    /\ word.value = "word"
    /\ word.key = "previous"
    /\ WasCollapsed
    /\ word.from.start = 2
    /\ word.dir = "backward"

\* C19: with a non-collapsed forward selection [s,e], 'previous' shrinks
\* instead of extending left: s is unchanged and the new end e' satisfies
\* s <= e' < e, the direction being none exactly when e' = s and forward
\* otherwise.
C19_PreviousShrinksForward ==
    (word.key = "previous" /\ word.from.dir = "forward" /\ ~WasCollapsed)
    => /\ word.start = word.from.start
       /\ word.start <= word.end
       /\ word.end < word.from.end
       /\ word.dir = IF word.end = word.start THEN "none" ELSE "forward"

\* the forward selection [0,9] of "word next" shrunk to [0,5]
C19_Witness ==
    /\ word.value = "word next"
    /\ word.key = "previous"
    /\ word.from = [start |-> 0, end |-> 9, dir |-> "forward"]
    /\ word.start = 0
    /\ word.end > 0
    /\ word.dir = "forward"

AtWordStart(value, pos) ==
    /\ pos < Len(value)
    /\ isWordChar(CharAt(value, pos))
    /\ pos = 0 \/ ~isWordChar(CharAt(value, pos - 1))

\* C20: with a collapsed cursor at the start of a word, 'next' selects
\* exactly that one word: the selection starts at the cursor and ends at the
\* end of that same word, whatever text follows the word.
C20_NextSelectsOneWord ==
    (word.key = "next" /\ WasCollapsed /\ AtWordStart(word.value, word.from.start))
    => /\ word.start = word.from.start
       /\ IsWholeWord(word.value, word.start, word.end)
       /\ word.dir = "forward"

\* C21: after any sequence of 'next' and 'previous' requests on a plain
\* field, starting from any valid selection, the selection written back
\* satisfies 0 <= start <= end <= text length.
C21_SelectionInBounds ==
    /\ 0 <= word.start
    /\ word.start <= word.end
    /\ word.end <= Len(word.value)

\* a forward selection starting inside a word, shrunk by 'previous': the
\* boundary found lies left of the anchor and the new end is clamped to it
C21_Witness ==
    /\ word.key = "previous"
    /\ word.from.dir = "forward"
    /\ word.from.start < word.from.end
    /\ findPreviousWordBoundary(word.value, word.from.end) < word.from.start
    /\ word.start = word.from.start
    /\ word.end = word.start
    /\ word.dir = "none"

\* C31: with a non-collapsed backward selection [s,e], 'next' shrinks the
\* selection from its start: e is unchanged and the new start s' satisfies
\* s < s' <= e, for every text content, the direction becoming none exactly
\* when s' = e.
C31_NextShrinksBackward ==
    (word.key = "next" /\ word.from.dir = "backward" /\ ~WasCollapsed)
    => /\ word.end = word.from.end
       /\ word.from.start < word.start
       /\ word.start <= word.end
       /\ word.dir = IF word.start = word.end THEN "none" ELSE "backward"

\* the end a 'next' request moves, before and after the request
ActiveEndBefore ==
    IF word.from.dir = "backward" /\ ~WasCollapsed THEN word.from.start ELSE word.from.end

ActiveEndAfter ==
    IF word.from.dir = "backward" /\ ~WasCollapsed THEN word.start ELSE word.end

\* C32: every 'next' request issued while the active end is before the end
\* of the text strictly advances the active end, so from any collapsed
\* cursor and any text repeated 'next' requests eventually extend the
\* selection to the end of the text.
C32_NextAdvances ==
    (word.key = "next" /\ ActiveEndBefore < Len(word.value))
    => ActiveEndAfter > ActiveEndBefore

\* C33: for a non-collapsed selection, a 'next' or 'previous' request moves
\* only the active end: the offset of the inactive (anchor) end is the same
\* after the request as before it, in the extend and in the shrink case.
C33_AnchorKept ==
    (word.key # "none" /\ ~WasCollapsed)
    => IF word.key = "next"
       THEN IF word.from.dir = "backward"
            THEN word.end = word.from.end
            ELSE word.start = word.from.start
       ELSE IF word.from.dir = "forward"
            THEN word.start = word.from.start
            ELSE word.end = word.from.end

\* a forward selection extended by 'next': the end moved, the start stayed
C33_Witness ==
    /\ word.key = "next"
    /\ word.from.dir = "forward"
    /\ word.from.start < word.from.end
    /\ word.end > word.from.end
    /\ word.start = word.from.start
    /\ word.start > 0

(***************************************************************************)
(* Properties of the key-down listener of the word selection (SpecArrow)   *)
(***************************************************************************)
\* the configured modifier is held with no other of Ctrl/Alt/Meta
HeldAlone(modifier, event) ==
    LET held == {m \in {"Alt", "Ctrl", "Meta", "Shift"} :
                    \/ m = "Alt" /\ event.altKey
                    \/ m = "Ctrl" /\ event.ctrlKey
                    \/ m = "Meta" /\ event.metaKey
                    \/ m = "Shift" /\ event.shiftKey}
    IN  /\ modifier \in held
        /\ held \cap {"Alt", "Ctrl", "Meta"} \subseteq {modifier}

\* C34: the word-selection handler changes the selection or suppresses a
\* key event only when it is enabled, the configured modifier is held with
\* no other of Ctrl/Alt/Meta, the deeply focused element (through shadow
\* roots) is editable and the key is ArrowLeft or ArrowRight; in every other
\* case the event's default is not prevented and the selection is unchanged.
C34_HandledOnlyWhenGated ==
    [][(arrow'.prevented \/ arrow'.modify # "none" \/ word' # word)
       => /\ arrow'.event # NoEvent
          /\ arrow.enabled
          /\ HeldAlone(arrow.modifier, arrow'.event)
          /\ getDeepActiveElement(arrow.chain) \in {"input", "textarea", "contenteditable"}
          /\ arrow'.event.key \in {"ArrowLeft", "ArrowRight"}]_vars

\* Ctrl+Shift+ArrowRight, Ctrl being the configured modifier, extended the
\* selection of a textarea focused inside a shadow root
C34_Witness ==
    /\ arrow.prevented
    /\ arrow.modifier = "Ctrl"
    /\ arrow.event.ctrlKey /\ arrow.event.shiftKey
    /\ arrow.event.key = "ArrowRight"
    /\ arrow.chain = <<"host", "textarea">>
    /\ word.key = "next"
    /\ word.end > word.from.end

Contains(current, text) ==
    \E i \in 1..(Len(current) - Len(text) + 1) :
       SubSeq(current, i, i + Len(text) - 1) = text

FinalWriting == llm.final \in {"focus", "select"}

Locked(i) == isPresetLocked(i - 1, pro.proStatus, pro.now)

\* C22: presets locked by the free-tier limit (index >= 5 while the user
\* does not have unlimited access) have no entry in the shortcut dispatch
\* table, so pressing a locked preset's shortcut never triggers its action.
C22_LockedPresetsNotDispatched ==
    \A i \in PresetIndices(presets) :
       Locked(i) => \A k \in DOMAIN shortcutMap : shortcutMap[k] # presets[i].id

C24_BetaKeepsUnlimited ==
    pro.proStatus = "beta_unlocked" => isUnlimited(pro.proStatus, pro.now)

\* C25: for a user whose status is not beta_unlocked, activateBetaCode
\* called at or after BETA_CUTOFF_DATE returns beta_expired for every code,
\* the correct one included, and leaves the in-memory status and the stored
\* status unchanged; before the cutoff a wrong code returns invalid_code and
\* likewise changes nothing.
C25_ExpiredOrInvalidChangesNothing ==
    LET a == pro.activation
        unchanged == /\ a.after = a.before
                     /\ a.storedAfter = a.storedBefore
                     /\ ~a.saved
    IN  (a.result # "none" /\ a.before # "beta_unlocked")
        => /\ a.at >= BETA_CUTOFF_DATE => (a.result = "beta_expired" /\ unchanged)
           /\ (a.at < BETA_CUTOFF_DATE /\ a.code \in {"ILOVEPOWERINPUT", ""})
                 => (a.result = "invalid_code" /\ unchanged)

\* the correct code entered by a free user on the cutoff day
C25_Witness ==
    /\ pro.activation.code = BETA_CODE
    /\ pro.activation.before = "free"
    /\ pro.activation.at = BETA_CUTOFF_DATE
    /\ pro.activation.result = "beta_expired"
    /\ pro.proStatus = "free"
    /\ pro.saving = "none"

\* C37: no call to activateBetaCode reduces a paying user's access: a user
\* whose status is pro_paid still has status pro_paid, and unlimited access,
\* after the call, with any code, before or after the cutoff date.
C37_PaidStaysPaid ==
    (pro.activation.result # "none" /\ pro.activation.before = "pro_paid")
    => /\ pro.activation.after = "pro_paid"
       /\ ~pro.activation.saved
       /\ (pro.proStatus = pro.activation.after
             => isUnlimited(pro.proStatus, pro.now))

====
